---- MODULE Spec2Model ----
(***************************************************************************)
(* Flight-route optimiser: the blocked-waypoint reroute machinery.         *)
(*                                                                         *)
(*   Spec         RouteAdjuster registry, the WebSocket / HTTP entry       *)
(*                points that drive handle_blocked_waypoint, and the       *)
(*                WebsocketManager notifier.                               *)
(*   SpecReroute  PPORerouter.reroute applied again and again to one       *)
(*                logical flight (the /reroute endpoint).                  *)
(*                                                                         *)
(* Coordinates are integers on a plane and distances are squared planar    *)
(* distances: the code only ever compares distances, and the haversine     *)
(* formula has no exact counterpart over the integers.  uuid4() is a       *)
(* counter that never repeats.                                             *)
(***************************************************************************)
EXTENDS Integers, Sequences, FiniteSets, TLC

----------------------------------------------------------------------------
(* Bounds *)

\* waypoints per generated route (route_generator.py uses 20)
NumWaypoints == 3
\* block events handled in one behaviour of Spec
MaxEvents == 2
\* routes registered in one behaviour of Spec
MaxRoutes == 1
\* ants * iterations of one ACO run (aco_optimizer.py uses 10 * 10)
NumSamples == 2
\* successive reroutes of one flight in SpecReroute
MaxReroutes == 2

----------------------------------------------------------------------------
(* Values *)

None == [kind |-> "None"]

PENDING == "pending"
ACTIVE == "active"
BLOCKED == "blocked"

\* str(uuid): the canonical text of a UUID is lower case; UUID(text) accepts
\* upper case as well, so two different texts parse to the same UUID.
Str(u) == [hex |-> u, upper |-> FALSE]
UpperStr(u) == [hex |-> u, upper |-> TRUE]
\* UUID(text) that yields another id than the one the text names
ParseUUID_Other(s) == s.hex + 1
ParseUUID(s) == s.hex

RouteTypes == <<"direct", "left", "right", "north", "south", "wide">>
PathTypes == {RouteTypes[i] : i \in 1..Len(RouteTypes)}

Airport(code, lat, lon) == [iata_code |-> code, latitude |-> lat, longitude |-> lon]

\* f"WP{n}_{route_type}"
WpName(n, tag) == [wp |-> n, tag |-> tag]

Waypoint(id, name, lat, lon, order) ==
    [id |-> id, name |-> name, latitude |-> lat, longitude |-> lon,
     order |-> order, status |-> PENDING]

mark_as_blocked(wp) == [wp EXCEPT !.status = BLOCKED]
mark_as_active(wp) == [wp EXCEPT !.status = ACTIVE]

Route(obj, id, origin, destination, waypoints, path_type) ==
    [obj |-> obj, id |-> id, origin |-> origin, destination |-> destination,
     waypoints |-> waypoints, path_type |-> path_type,
     optimization_method |-> "", fitness_score |-> 0,
     reroute_history |-> <<>>]

----------------------------------------------------------------------------
(* Geometry *)

Sq(x) == x * x
Min(a, b) == IF a <= b THEN a ELSE b
Max(a, b) == IF a >= b THEN a ELSE b

\* squared planar distance, standing for the great-circle distance
calculate_distance(a, b) ==
    Sq(a.latitude - b.latitude) + Sq(a.longitude - b.longitude)

RECURSIVE IsqrtFrom(_, _)
IsqrtFrom(n, r) == IF Sq(r + 1) > n THEN r ELSE IsqrtFrom(n, r + 1)
Isqrt(n) == IsqrtFrom(n, 0)

RECURSIVE Pow(_, _)
Pow(b, e) == IF e = 0 THEN 1 ELSE b * Pow(b, e - 1)

\* one grid unit is 50 km: an exclusion radius of 100 km is 2 units and the
\* offset min(0.2, distance / 2000) is min(8, units) fortieths
ExclusionRadiusUnits == 2
OffsetCap40 == 8

\* position a fraction i/(K-1) of the way from a to b, no deflection
calculate_position(a, b, i, n) ==
    [latitude |-> a.latitude + ((b.latitude - a.latitude) * i) \div n,
     longitude |-> a.longitude + ((b.longitude - a.longitude) * i) \div n]

\* an excluded area counts only when it has both "center" and "radius_km"
ExcludedArea(lat, lon, hasRadiusKm) ==
    [latitude |-> lat, longitude |-> lon, radius_km |-> hasRadiusKm]

_is_in_excluded_area(pt, excluded_areas) ==
    \E k \in 1..Len(excluded_areas) :
        /\ excluded_areas[k].radius_km
        /\ calculate_distance(pt, excluded_areas[k]) <= Sq(ExclusionRadiusUnits)

\* the displacement of the control point for an offset of num/den
ControlShift(route_type, lat_diff, lon_diff, num, den) ==
    CASE route_type = "left" ->
            [latitude |-> (lon_diff * num) \div den,
             longitude |-> 0 - ((lat_diff * num) \div den)]
      [] route_type = "right" ->
            [latitude |-> 0 - ((lon_diff * num) \div den),
             longitude |-> (lat_diff * num) \div den]
      [] route_type = "wide" ->
            [latitude |-> (lon_diff * num * 3) \div (den * 2),
             longitude |-> 0 - ((lat_diff * num * 3) \div (den * 2))]
      [] route_type = "north" ->
            [latitude |-> (2 * num) \div den, longitude |-> 0]
      [] route_type = "south" ->
            [latitude |-> 0 - ((2 * num) \div den), longitude |-> 0]
      [] OTHER -> [latitude |-> 0, longitude |-> 0]

\* the loop that grows the offset by 1.5 while the control point is excluded
RECURSIVE AvoidExcluded(_, _, _, _, _, _, _)
AvoidExcluded(mid, route_type, lat_diff, lon_diff, off40, attempts, excluded_areas) ==
    IF attempts < 5 /\ _is_in_excluded_area(mid, excluded_areas)
    THEN LET num == off40 * Pow(3, attempts + 1)
             den == 40 * Pow(2, attempts + 1)
             sh == ControlShift(route_type, lat_diff, lon_diff, num, den)
         IN AvoidExcluded([latitude |-> mid.latitude + sh.latitude,
                           longitude |-> mid.longitude + sh.longitude],
                          route_type, lat_diff, lon_diff, off40, attempts + 1,
                          excluded_areas)
    ELSE mid

ControlPoint(origin, destination, route_type, excluded_areas) ==
    LET lat_diff == destination.latitude - origin.latitude
        lon_diff == destination.longitude - origin.longitude
        off40 == Min(OffsetCap40, Isqrt(calculate_distance(origin, destination)))
        sh == ControlShift(route_type, lat_diff, lon_diff, off40, 40)
        mid == [latitude |-> (origin.latitude + destination.latitude) \div 2 + sh.latitude,
                longitude |-> (origin.longitude + destination.longitude) \div 2 + sh.longitude]
    IN IF Len(excluded_areas) > 0
       THEN AvoidExcluded(mid, route_type, lat_diff, lon_diff, off40, 0, excluded_areas)
       ELSE mid

\* B(t) = (1-t)^2 P0 + 2(1-t)t P1 + t^2 P2 at t = i/n
Bezier(p0, p1, p2, i, n) ==
    [latitude |-> (Sq(n - i) * p0.latitude + 2 * (n - i) * i * p1.latitude
                    + Sq(i) * p2.latitude) \div Sq(n),
     longitude |-> (Sq(n - i) * p0.longitude + 2 * (n - i) * i * p1.longitude
                    + Sq(i) * p2.longitude) \div Sq(n)]

\* a variant that places point i at the fraction (i-1)/K and pins no end
_calculate_waypoints_OpenEnded(origin, destination, route_type, excluded_areas, base) ==
    LET mid == ControlPoint(origin, destination, route_type, excluded_areas)
        at(i) == IF route_type = "direct"
                 THEN calculate_position(origin, destination, i - 1, NumWaypoints)
                 ELSE Bezier(origin, mid, destination, i - 1, NumWaypoints)
    IN [i \in 1..NumWaypoints |->
          Waypoint(base + i, WpName(i, route_type),
                   at(i).latitude, at(i).longitude, i)]

\* the waypoints of one route; their ids are base+1 .. base+NumWaypoints
_calculate_waypoints(origin, destination, route_type, excluded_areas, base) ==
    LET n == NumWaypoints - 1
        mid == ControlPoint(origin, destination, route_type, excluded_areas)
        at(i) == IF route_type = "direct"
                 THEN calculate_position(origin, destination, i - 1, n)
                 ELSE Bezier(origin, mid, destination, i - 1, n)
    IN [i \in 1..NumWaypoints |->
          IF i = 1
          THEN Waypoint(base + 1, WpName(1, route_type),
                        origin.latitude, origin.longitude, 1)
          ELSE IF i = NumWaypoints
          THEN Waypoint(base + i, WpName(NumWaypoints, route_type),
                        destination.latitude, destination.longitude, NumWaypoints)
          ELSE Waypoint(base + i, WpName(i, route_type),
                        at(i).latitude, at(i).longitude, i)]

\* ids drawn by one _generate_route call: the route's and its waypoints'
IdsPerRoute == NumWaypoints + 1

\* fitness stands for calculate_fitness_score, which depends on the weather
_generate_route(origin, destination, route_type, excluded_areas, base, fitness) ==
    [Route(base + 1, base + 1, origin, destination,
           _calculate_waypoints(origin, destination, route_type, excluded_areas, base + 1),
           route_type)
     EXCEPT !.fitness_score = fitness]

generate_alternative_routes(origin, destination, route_types, excluded_areas, base, weather) ==
    IF origin = None \/ destination = None
    THEN <<>>
    ELSE LET types == IF Len(route_types) = 0 THEN RouteTypes ELSE route_types
         IN [k \in 1..Len(types) |->
               _generate_route(origin, destination, types[k], excluded_areas,
                               base + (k - 1) * IdsPerRoute, weather[types[k]])]

\* the fitness the weather gives each path type
WeatherScenarios ==
    {[t \in PathTypes |-> IF t = b THEN 1 ELSE 2] : b \in {"left", "none"}}

----------------------------------------------------------------------------
(* Optimizers (aco_optimizer.py, genetic_optimizer.py) *)

\* the best-so-far index after the samples k.. of an ACO run; 0 is "no best"
RECURSIVE ACOBest(_, _, _, _)
ACOBest(routes, samples, k, best) ==
    IF k > Len(samples)
    THEN best
    ELSE LET r == samples[k]
             better == \/ best = 0
                       \/ routes[r].fitness_score < routes[best].fitness_score
         IN ACOBest(routes, samples, k + 1, IF better THEN r ELSE best)

\* samples: the routes _select_route drew, in order; every route has a
\* positive probability at every draw
ACOOptimize(routes, samples) ==
    IF Len(routes) = 0
    THEN None
    ELSE LET b == ACOBest(routes, samples, 1, 0)
         IN IF b = 0 THEN None
            ELSE [routes[b] EXCEPT !.optimization_method = "aco"]

\* individuals of one population (genetic_optimizer.py uses 10)
PopulationSize == 3
EliteSize == 2
\* generations of one run (genetic_optimizer.py uses 20)
Generations == 1

\* sorted(population, key=fitness): stable insertion of x into a sorted list
RECURSIVE InsertSorted(_, _, _)
InsertSorted(x, sorted, fs) ==
    IF Len(sorted) = 0 THEN <<x>>
    ELSE IF fs[x] < fs[sorted[Len(sorted)]]
         THEN Append(InsertSorted(x, SubSeq(sorted, 1, Len(sorted) - 1), fs),
                     sorted[Len(sorted)])
         ELSE Append(sorted, x)

RECURSIVE SortByFitness(_, _)
SortByFitness(pop, fs) ==
    IF Len(pop) = 0 THEN <<>>
    ELSE InsertSorted(pop[Len(pop)], SortByFitness(SubSeq(pop, 1, Len(pop) - 1), fs), fs)

\* min(population, key=fitness): the first individual of least fitness
ArgMin(pop, fs) == SortByFitness(pop, fs)[1]

_crossover(p1, p2, fs) == IF fs[p1] <= fs[p2] THEN p1 ELSE p2

\* the children one tournament + crossover + optional mutation can give
Children(scored, fs) ==
    LET tournament_size == Min(5, Len(scored))
        cand == 1..Max(tournament_size, Len(scored) \div 2)
        bred == {_crossover(scored[a], scored[b], fs) :
                    <<a, b>> \in {pr \in cand \X cand : pr[1] # pr[2]}}
        mutated == {m \in 1..Len(fs) : \E c \in bred : m # c}
    IN bred \cup mutated

\* the populations one generation can turn pop into
NextGenerations(pop, fs) ==
    LET scored == SortByFitness(pop, fs)
        elite == SubSeq(scored, 1, Min(EliteSize, Len(scored)))
        rest == PopulationSize - Len(elite)
        kids == Children(scored, fs)
    IN {elite \o [i \in 1..rest |-> c[i]] : c \in [1..rest -> kids]}

RECURSIVE Evolve(_, _, _)
Evolve(pops, fs, g) ==
    IF g = 0 THEN pops
    ELSE Evolve(UNION {NextGenerations(p, fs) : p \in pops}, fs, g - 1)

\* the indices a genetic run over routes of fitness fs can return
GeneticOutcomes(fs) ==
    {ArgMin(p, fs) : p \in Evolve([1..PopulationSize -> 1..Len(fs)], fs, Generations)}

\* the same, tabulated for the six default route types under each weather
GeneticTable ==
    [w \in WeatherScenarios |->
        GeneticOutcomes([k \in 1..Len(RouteTypes) |-> w[RouteTypes[k]]])]

GeneticOptimize(routes, b) ==
    IF Len(routes) = 0 THEN None
    ELSE IF Len(routes) < 2 THEN routes[1]
    ELSE [routes[b] EXCEPT !.optimization_method = "genetic"]

\* optimizer_factory.get_optimizer: everything but "genetic" is ACO
UsesGenetic(method) == method = "genetic"

----------------------------------------------------------------------------
(* State *)

VARIABLES
    active_routes,       \* RouteAdjuster.active_routes: key text -> Route
    active_connections,  \* WebsocketManager.active_connections: key -> sockets
    sent,                \* messages the sockets were sent, oldest first
    task,                \* the request handlers and where each stands
    nextId,              \* uuid4() values and objects created so far
    events,              \* block events started
    flight,              \* SpecReroute: the flight's current route
    rr,                  \* SpecReroute: the last reroute call and its result
    bc,                  \* the broadcast in progress and where its loop stands
    mon,                 \* RouteMonitor: monitoring_task and the loop's position
    ctl,                 \* the caller of start_monitoring / stop_monitoring
    opt,                 \* an optimizer run: candidates, samples, tracked best
    wx,                  \* a weather acquisition: points, attempts, samples
    gen                  \* a generate_alternative_routes call and its result

vars ==
    <<active_routes, active_connections, sent, task, nextId, events, flight, rr,
      bc, mon, ctl, opt, wx, gen>>
adjusterVars == <<active_routes, active_connections, sent, task, events>>
rerouteVars == <<flight, rr>>
otherVars == <<bc, mon, ctl, opt, wx, gen>>

\* the variables of the other specifications, while they are not in use
OthersUnused ==
    /\ bc = None
    /\ mon = None
    /\ ctl = None
    /\ opt = None
    /\ wx = None
    /\ gen = None

WsTasks == {"ws1"}
HttpTasks == {"http1"}
Tasks == WsTasks \cup HttpTasks

\* the airports of the model's flights
BLR == Airport("BLR", 0, 0)
DEL == Airport("DEL", 16, 8)

IdleTask ==
    [pc |-> "idle", via |-> "", route_id |-> Str(0), waypoint_id |-> Str(0),
     route_obj |-> 0, blocked_index |-> 0, blocked_name |-> WpName(0, ""),
     pre_status |-> <<>>, pre_history |-> <<>>,
     origin |-> None, destination |-> None, excluded_area |-> None,
     method |-> "", result |-> None]

Keys == DOMAIN active_routes

\* dict.get
Get(d, k) == IF k \in DOMAIN d THEN d[k] ELSE None

\* d[k] = v
Put(d, k, v) == [x \in DOMAIN d \cup {k} |-> IF x = k THEN v ELSE d[x]]

\* del d[k]
Del(d, k) == [x \in DOMAIN d \ {k} |-> d[x]]

----------------------------------------------------------------------------
(* RouteAdjuster (backend/realtime/route_adjuster.py) *)

\* register_route(route), for a route a caller built between two airports
RegisterRoute(o, d, route_type, has_destination, method) ==
    /\ Cardinality(Keys) < MaxRoutes
    /\ o # d
    /\ LET g == _generate_route(o, d, route_type, <<>>, nextId, 1)
           route == [g EXCEPT !.destination = IF has_destination THEN d ELSE None,
                              !.optimization_method = method]
       IN active_routes' = Put(active_routes, Str(route.id), route)
    /\ nextId' = nextId + IdsPerRoute
    /\ UNCHANGED <<active_connections, sent, task, events, rerouteVars, otherVars>>

\* index of the first waypoint whose str(id) is waypoint_id, 0 if none
RECURSIVE FindWaypoint(_, _, _)
FindWaypoint(wps, waypoint_id, i) ==
    IF i > Len(wps) THEN 0
    ELSE IF Str(wps[i].id) = waypoint_id THEN i
    ELSE FindWaypoint(wps, waypoint_id, i + 1)

\* handle_blocked_waypoint up to its first await (lines 55-116): the new
\* value of t's record and of the registered route object
HandleStart(t, via, route_id, waypoint_id) ==
    LET route == Get(active_routes, route_id)
        base == [IdleTask EXCEPT !.via = via, !.route_id = route_id,
                                 !.waypoint_id = waypoint_id]
        returned == [base EXCEPT !.pc = "returned", !.result = None]
    IN IF route = None
       THEN [tsk |-> returned, routes |-> active_routes]
       ELSE LET b == FindWaypoint(route.waypoints, waypoint_id, 1)
            IN IF b = 0
               THEN [tsk |-> [returned EXCEPT !.route_obj = route.obj],
                     routes |-> active_routes]
               ELSE LET blocked == mark_as_blocked(route.waypoints[b])
                        wps1 == [route.waypoints EXCEPT ![b] = blocked]
                        wps2 == IF b > 1
                                THEN [wps1 EXCEPT ![b - 1] = mark_as_active(wps1[b - 1])]
                                ELSE wps1
                        origin == IF b > 1
                                  THEN Airport("TMP", wps2[b - 1].latitude,
                                               wps2[b - 1].longitude)
                                  ELSE route.origin
                    IN [tsk |-> [base EXCEPT
                                   !.pc = "generating",
                                   !.route_obj = route.obj,
                                   !.blocked_index = b,
                                   !.blocked_name = blocked.name,
                                   !.pre_history = route.reroute_history,
                                   !.pre_status = [i \in 1..Len(route.waypoints) |->
                                                      route.waypoints[i].status],
                                   !.origin = origin,
                                   !.destination = route.destination,
                                   !.excluded_area = ExcludedArea(blocked.latitude,
                                                       blocked.longitude, FALSE),
                                   !.method = route.optimization_method],
                        routes |-> [active_routes EXCEPT ![route_id].waypoints = wps2]]

\* the routes generate_alternative_routes returns to the handler
NewRoutes(t, weather) ==
    generate_alternative_routes(task[t].origin, task[t].destination, <<>>,
                                <<task[t].excluded_area>>, nextId, weather)

\* HandleFinish without line 127: the stored route keeps its fresh id
HandleFinish_KeepsFreshId(t, optimized_route) ==
    IF optimized_route = None
    THEN /\ task' = [task EXCEPT ![t].pc = "returned", ![t].result = None]
         /\ UNCHANGED active_routes
    ELSE /\ active_routes' = Put(active_routes, task[t].route_id, optimized_route)
         /\ task' = [task EXCEPT ![t].pc = "returned", ![t].result = optimized_route]

\* the rest of handle_blocked_waypoint (lines 118-130) for the optimizer's pick
HandleFinish(t, optimized_route) ==
    IF optimized_route = None
    THEN /\ task' = [task EXCEPT ![t].pc = "returned", ![t].result = None]
         /\ UNCHANGED active_routes
    ELSE LET stored == [optimized_route EXCEPT !.id = ParseUUID(task[t].route_id)]
         IN /\ active_routes' = Put(active_routes, task[t].route_id, stored)
            /\ task' = [task EXCEPT ![t].pc = "returned", ![t].result = stored]

\* the handler resumes with the generated routes and optimizes them
HandleResume(t) ==
    /\ task[t].pc = "generating"
    /\ \E weather \in WeatherScenarios :
          LET new_routes == NewRoutes(t, weather)
          IN /\ nextId' = nextId + Len(new_routes) * IdsPerRoute
             /\ IF UsesGenetic(task[t].method)
                THEN IF Len(new_routes) < 2
                     THEN HandleFinish(t, GeneticOptimize(new_routes, 1))
                     ELSE \E b \in GeneticTable[weather] :
                             HandleFinish(t, GeneticOptimize(new_routes, b))
                ELSE IF Len(new_routes) = 0
                     THEN HandleFinish(t, ACOOptimize(new_routes, <<>>))
                     ELSE \E samples \in [1..NumSamples -> 1..Len(new_routes)] :
                             HandleFinish(t, ACOOptimize(new_routes, samples))
    /\ UNCHANGED <<active_connections, sent, events, rerouteVars, otherVars>>

----------------------------------------------------------------------------
(* WebsocketManager (backend/realtime/websocket_manager.py) *)

RECURSIVE SeqWithout(_, _)
SeqWithout(q, drop) ==
    IF Len(q) = 0 THEN <<>>
    ELSE IF q[1] \in drop THEN SeqWithout(Tail(q), drop)
    ELSE <<q[1]>> \o SeqWithout(Tail(q), drop)

connect(conns, route_id, ws) ==
    Put(conns, route_id,
        Append(IF route_id \in DOMAIN conns THEN conns[route_id] ELSE <<>>, ws))

disconnect(conns, route_id, ws) ==
    IF route_id \notin DOMAIN conns
    THEN conns
    ELSE LET left == SeqWithout(conns[route_id], {ws})
         IN IF Len(left) = 0 THEN Del(conns, route_id)
            ELSE [conns EXCEPT ![route_id] = left]

\* to_dict() of the route a message carries, None when there is no route
RouteDict(route) ==
    IF route = None THEN None ELSE [id |-> Str(route.id), obj |-> route.obj]

\* the messages one broadcast_route_update delivers when the sends to the
\* sockets in failing raise
Delivered(conns, route_id, updated_route, failing) ==
    IF route_id \notin DOMAIN conns
    THEN <<>>
    ELSE LET to == SeqWithout(conns[route_id], failing)
         IN [i \in 1..Len(to) |->
               [type |-> "route_update", route_id |-> route_id,
                data |-> RouteDict(updated_route), to |-> to[i]]]

\* the connections after that broadcast: the failing sockets are dropped
AfterBroadcast(conns, route_id, failing) ==
    IF route_id \notin DOMAIN conns
    THEN conns
    ELSE LET left == SeqWithout(conns[route_id], failing)
         IN IF Len(left) = 0 THEN Del(conns, route_id)
            ELSE [conns EXCEPT ![route_id] = left]

----------------------------------------------------------------------------
(* Entry points (app.py websocket_endpoint, routes_controller.block_waypoint) *)

\* the route ids and waypoint ids a client can send
RouteIdInputs == Keys \cup {Str(0)} \cup {UpperStr(ParseUUID(k)) : k \in Keys}
WaypointIdInputs(route_id) ==
    LET route == Get(active_routes, route_id)
    IN {Str(0)} \cup
       (IF route = None THEN {}
        ELSE {Str(route.waypoints[i].id) : i \in 1..Len(route.waypoints)})

WsConnect(t, route_id) ==
    /\ task[t].pc = "idle"
    /\ events < MaxEvents
    /\ task' = [task EXCEPT ![t] = [IdleTask EXCEPT !.pc = "receive", !.via = "ws",
                                                    !.route_id = route_id]]
    /\ active_connections' = connect(active_connections, route_id, t)
    /\ UNCHANGED <<active_routes, sent, nextId, events, rerouteVars, otherVars>>

\* a {"block_waypoint": ..., "waypoint_id": ...} message arrives
WsReceiveBlock(t, waypoint_id) ==
    /\ task[t].pc = "receive"
    /\ events < MaxEvents
    /\ LET h == HandleStart(t, "ws", task[t].route_id, waypoint_id)
       IN /\ task' = [task EXCEPT ![t] = h.tsk]
          /\ active_routes' = h.routes
    /\ events' = events + 1
    /\ UNCHANGED <<active_connections, sent, nextId, rerouteVars, otherVars>>

\* line 91: the endpoint broadcasts whatever the handler returned
WsBroadcast(t, failing) ==
    /\ task[t].pc = "returned"
    /\ task[t].via = "ws"
    /\ sent' = sent \o Delivered(active_connections, task[t].route_id,
                                 task[t].result, failing)
    /\ active_connections' = AfterBroadcast(active_connections, task[t].route_id, failing)
    /\ task' = [task EXCEPT ![t] = [IdleTask EXCEPT !.pc = "receive", !.via = "ws",
                                                    !.route_id = task[t].route_id]]
    /\ UNCHANGED <<active_routes, nextId, events, rerouteVars, otherVars>>

\* receive_json raises WebSocketDisconnect
WsDisconnect(t) ==
    /\ task[t].pc = "receive"
    /\ active_connections' = disconnect(active_connections, task[t].route_id, t)
    /\ task' = [task EXCEPT ![t] = IdleTask]
    /\ UNCHANGED <<active_routes, sent, nextId, events, rerouteVars, otherVars>>

\* POST /block-waypoint
HttpBlock(t, route_id, waypoint_id) ==
    /\ task[t].pc = "idle"
    /\ events < MaxEvents
    /\ LET h == HandleStart(t, "http", route_id, waypoint_id)
       IN /\ task' = [task EXCEPT ![t] = h.tsk]
          /\ active_routes' = h.routes
    /\ events' = events + 1
    /\ UNCHANGED <<active_connections, sent, nextId, rerouteVars, otherVars>>

\* the response: the new route, or an error when the handler returned None
HttpRespond(t) ==
    /\ task[t].pc = "returned"
    /\ task[t].via = "http"
    /\ task' = [task EXCEPT ![t] = IdleTask]
    /\ UNCHANGED <<active_routes, active_connections, sent, nextId, events, rerouteVars, otherVars>>

----------------------------------------------------------------------------
(* Specification of the adjuster *)

Init ==
    /\ active_routes = <<>>
    /\ active_connections = <<>>
    /\ sent = <<>>
    /\ task = [t \in Tasks |-> IdleTask]
    /\ nextId = 0
    /\ events = 0
    /\ flight = None
    /\ rr = None
    /\ OthersUnused

Next ==
    \/ \E has_destination \in BOOLEAN, method \in {"aco", "genetic"} :
          RegisterRoute(BLR, DEL, "direct", has_destination, method)
    \/ \E t \in WsTasks, route_id \in RouteIdInputs : WsConnect(t, route_id)
    \/ \E t \in WsTasks : \E waypoint_id \in WaypointIdInputs(task[t].route_id) :
          WsReceiveBlock(t, waypoint_id)
    \/ \E t \in Tasks : HandleResume(t)
    \/ \E t \in WsTasks, failing \in SUBSET WsTasks : WsBroadcast(t, failing)
    \/ \E t \in WsTasks : WsDisconnect(t)
    \/ \E t \in HttpTasks, route_id \in RouteIdInputs :
          \E waypoint_id \in WaypointIdInputs(route_id) :
             HttpBlock(t, route_id, waypoint_id)
    \/ \E t \in HttpTasks : HttpRespond(t)

Spec == Init /\ [][Next]_vars


----------------------------------------------------------------------------
(* PPORerouter (backend/services/optimization/ppo_rerouter.py) *)

\* the last index whose waypoint has this id, 0 if none (the loop never breaks)
RECURSIVE LastIndexOfId(_, _, _)
LastIndexOfId(wps, id, i) ==
    IF i = 0 THEN 0
    ELSE IF wps[i].id = id THEN i
    ELSE LastIndexOfId(wps, id, i - 1)

\* the first index of least distance to pos, 0 for an empty list
RECURSIVE NearestFrom(_, _, _, _)
NearestFrom(pos, wps, i, best) ==
    IF i > Len(wps) THEN best
    ELSE IF best = 0 \/ calculate_distance(pos, wps[i]) < calculate_distance(pos, wps[best])
         THEN NearestFrom(pos, wps, i + 1, i)
         ELSE NearestFrom(pos, wps, i + 1, best)
NearestIndex(pos, wps) == NearestFrom(pos, wps, 1, 0)

\* name.split("_")[-1], or "alt" for a name without "_"
RouteTypeOfName(name) == IF name.tag = "" THEN "alt" ELSE name.tag

\* the index _create_rerouted_path takes for the current position
CurrentPosIndex(current_route, current_position) ==
    LET wps == current_route.waypoints
        by_id == LastIndexOfId(wps, current_position.id, Len(wps))
    IN IF by_id = 0 THEN NearestIndex(current_position, wps) ELSE by_id

\* the suffix of the splice without line 368: the copies keep their order
SuffixCopies_KeepsOrder(waypoints_alt, next_order, base) ==
    [i \in 1..Len(waypoints_alt) |->
        [waypoints_alt[i] EXCEPT
            !.id = base + i,
            !.name = WpName(next_order + i - 1, RouteTypeOfName(waypoints_alt[i].name))]]

\* lines 355-369: the suffix copies get fresh ids, new names and new orders
SuffixCopies(waypoints_alt, next_order, base) ==
    [i \in 1..Len(waypoints_alt) |->
        [waypoints_alt[i] EXCEPT
            !.id = base + i,
            !.name = WpName(next_order + i - 1, RouteTypeOfName(waypoints_alt[i].name)),
            !.order = next_order + i - 1]]

\* the splice without lines 323-324: the alternative's tail is never cut
_create_rerouted_path_Uncut(current_route, blocked_waypoint, current_position, alternative_route, target_index, base, fitness) ==
    LET wps == current_route.waypoints
        current_pos_index == CurrentPosIndex(current_route, current_position)
        blocked_index == LastIndexOfId(wps, blocked_waypoint.id, Len(wps))
        waypoints_initial == SubSeq(wps, 1, current_pos_index)
        waypoints_alt ==
            IF blocked_index # 0 /\ current_pos_index < blocked_index
            THEN SubSeq(alternative_route.waypoints, target_index,
                        Len(alternative_route.waypoints))
            ELSE SubSeq(wps, current_pos_index + 1, Len(wps))
        combined_waypoints ==
            [i \in 1..Len(waypoints_initial) |-> [waypoints_initial[i] EXCEPT !.order = i]]
            \o SuffixCopies(waypoints_alt, Len(waypoints_initial) + 1, base)
        reroute_record == <<blocked_waypoint.name, alternative_route.path_type>>
    IN [Route(0, base + Len(waypoints_alt) + 1, current_route.origin,
              current_route.destination, combined_waypoints,
              "rerouted_" \o alternative_route.path_type)
        EXCEPT !.optimization_method = "ppo",
               !.fitness_score = fitness,
               !.reroute_history = Append(current_route.reroute_history, reroute_record)]

\* _create_rerouted_path; target_index counts from 1; fresh ids follow base
_create_rerouted_path(current_route, blocked_waypoint, current_position, alternative_route, target_index, base, fitness) ==
    LET wps == current_route.waypoints
        current_pos_index == CurrentPosIndex(current_route, current_position)
        blocked_index == LastIndexOfId(wps, blocked_waypoint.id, Len(wps))
        waypoints_initial == SubSeq(wps, 1, current_pos_index)
        remaining_waypoints_needed == Len(wps) - Len(waypoints_initial)
        alt_tail == SubSeq(alternative_route.waypoints, target_index,
                           Len(alternative_route.waypoints))
        waypoints_alt ==
            IF blocked_index # 0 /\ current_pos_index < blocked_index
            THEN IF Len(alt_tail) > remaining_waypoints_needed
                 THEN SubSeq(alt_tail, 1, remaining_waypoints_needed)
                 ELSE alt_tail
            ELSE SubSeq(wps, current_pos_index + 1, Len(wps))
        combined_waypoints ==
            [i \in 1..Len(waypoints_initial) |-> [waypoints_initial[i] EXCEPT !.order = i]]
            \o SuffixCopies(waypoints_alt, Len(waypoints_initial) + 1, base)
        reroute_record == <<blocked_waypoint.name, alternative_route.path_type>>
    IN [Route(0, base + Len(waypoints_alt) + 1, current_route.origin,
              current_route.destination, combined_waypoints,
              "rerouted_" \o alternative_route.path_type)
        EXCEPT !.optimization_method = "ppo",
               !.fitness_score = fitness,
               !.reroute_history = Append(current_route.reroute_history, reroute_record)]

\* used_route_types without lines 162-165: the history is never consulted
UsedRouteTypes_NoHistory(current_route) ==
    {current_route.path_type}

\* lines 155-165: the path types a reroute will not pick
UsedRouteTypes(current_route) ==
    IF Len(current_route.reroute_history) = 0
    THEN {current_route.path_type}
    ELSE {current_route.reroute_history[i][2] :
             i \in 1..Len(current_route.reroute_history)}

\* the first of the candidate indices cands (ascending) of least key
RECURSIVE FirstMin(_, _, _, _)
FirstMin(cands, key, i, best) ==
    IF i > Len(cands) THEN best
    ELSE IF best = 0 \/ key[cands[i]] < key[best]
         THEN FirstMin(cands, key, i + 1, cands[i])
         ELSE FirstMin(cands, key, i + 1, best)

\* PPORerouter.reroute.  blocked_at is the index of the blocked waypoint
\* object in current_route.waypoints, 0 when the caller passes another
\* object; current_position is None or a waypoint; aware says whether the
\* rerouter has an aircraft and a weather service; weather gives each path
\* type its score.  The outcome names the route returned (or None), the
\* alternative chosen, the index taken for the current position, and the
\* chosen alternative's waypoints with the index of its matched entry.
reroute(blocked_waypoint, blocked_at, current_route, alternative_routes, current_position, aware, weather, base) ==
    LET failed == [route |-> None, selected |-> "", k |-> 0, target |-> 0, alt |-> <<>>]
        used_route_types == UsedRouteTypes(current_route)
        position == IF current_position # None THEN current_position
                    ELSE IF blocked_at > 1
                    THEN [current_route.waypoints[blocked_at - 1] EXCEPT !.status = ACTIVE]
                    ELSE None
        route1 == IF current_position = None /\ blocked_at > 1
                  THEN [current_route EXCEPT !.waypoints[blocked_at - 1] = position]
                  ELSE current_route
        cands == SelectSeq([i \in 1..Len(alternative_routes) |-> i],
                     LAMBDA i : /\ alternative_routes[i].path_type \notin used_route_types
                                /\ Len(alternative_routes[i].waypoints) > 0)
        nearest == [i \in 1..Len(alternative_routes) |->
                      NearestIndex(position, alternative_routes[i].waypoints)]
        key == [i \in 1..Len(alternative_routes) |->
                  IF aware THEN weather[alternative_routes[i].path_type]
                  ELSE IF nearest[i] = 0 THEN 0
                  ELSE calculate_distance(position,
                          alternative_routes[i].waypoints[nearest[i]])]
        best == FirstMin(cands, key, 1, 0)
    IN IF Len(alternative_routes) = 0 \/ position = None \/ best = 0
       THEN failed
       ELSE [route |-> _create_rerouted_path(route1, blocked_waypoint, position,
                          alternative_routes[best], nearest[best], base,
                          weather[alternative_routes[best].path_type]),
             selected |-> alternative_routes[best].path_type,
             k |-> CurrentPosIndex(route1, position),
             target |-> nearest[best],
             alt |-> alternative_routes[best].waypoints]

----------------------------------------------------------------------------
(* Successive reroutes of one flight (routes_controller.reroute_flight) *)

\* a route as Route.from_dict reads it from JSON without "order" keys
WithoutOrders(route) ==
    [route EXCEPT !.waypoints = [i \in 1..Len(route.waypoints) |->
                                    [route.waypoints[i] EXCEPT !.order = 0]]]

\* a flight a client sends with its own waypoints: one more than a generated
\* route has, the second one already close to the destination
ClientFlight ==
    [Route(1, 1, BLR, DEL,
           [i \in 1..(NumWaypoints + 1) |->
              IF i = 1 THEN Waypoint(0 - 11, WpName(1, "direct"), 0, 0, 1)
              ELSE IF i = NumWaypoints + 1
              THEN Waypoint(0 - 10 - i, WpName(i, "direct"), 16, 8, i)
              ELSE Waypoint(0 - 10 - i, WpName(i, "direct"), 11 + i, 5 + (i \div 2), i)],
           "direct")
     EXCEPT !.fitness_score = 1]

InitialFlights ==
    {_generate_route(BLR, DEL, "direct", <<>>, 0, 1),
     WithoutOrders(_generate_route(BLR, DEL, "left", <<>>, 0, 1))}

\* a waypoint nobody has in a route, and the caller's "CurrentPosition"
ForeignWaypoint == Waypoint(0 - 1, WpName(9, "closed"), 8, 4, 0)
PositionAt(wp) == Waypoint(0, WpName(0, ""), wp.latitude, wp.longitude, 0)

\* what a caller can pass as (blocked waypoint, current position).  at is the
\* index of the blocked waypoint object in the route's list, 0 when the
\* object is a copy (same id) or foreign; the position is None, a waypoint
\* of the route, or a new waypoint at the place of one.
CallInputs(route) ==
    LET n == Len(route.waypoints)
        wps == route.waypoints
    IN {[wp |-> wps[i], at |-> i, position |-> None] : i \in 1..n}
       \cup {[wp |-> wps[n], at |-> 0, position |-> None]}
       \cup {[wp |-> wps[i], at |-> 0, position |-> wps[j]] : i \in 1..n, j \in 1..n}
       \cup {[wp |-> wps[i], at |-> 0, position |-> PositionAt(wps[j])] :
                i \in 1..n, j \in 1..n}
       \cup {[wp |-> ForeignWaypoint, at |-> 0, position |-> p] :
                p \in {wps[1], PositionAt(wps[n])}}

\* the path types of the alternatives a caller offers; the first list is the
\* one reroute_flight generates itself
AltTypeLists ==
    {<<"left", "right", "north", "south", "wide">>, <<"direct", "left">>, <<"direct">>}

\* whether the rerouter has an aircraft and a weather service, and the weather
Calm == [t \in PathTypes |-> 2]
Policies ==
    {[aware |-> FALSE, weather |-> Calm]}
    \cup {[aware |-> TRUE, weather |-> w] : w \in WeatherScenarios}

NoCall ==
    [calls |-> 0, original |-> "", result |-> None, prev |-> None,
     blocked |-> None, k |-> 0, selected |-> "", target |-> 0, alt |-> <<>>,
     offered |-> {}]

\* one call of reroute for the flight; the caller goes on with the route it
\* gets back.  offered is the set of path types of the alternatives passed.  The ids of the alternatives die with the call, so only the
\* ids of the returned route are counted as drawn.
PPOReroute(call, types, policy) ==
    /\ rr.calls < MaxReroutes
    /\ LET alternative_routes ==
               generate_alternative_routes(flight.origin, flight.destination, types,
                   <<ExcludedArea(call.wp.latitude, call.wp.longitude, TRUE)>>,
                   nextId + IdsPerRoute, policy.weather)
           out == reroute(call.wp, call.at, flight, alternative_routes,
                          call.position, policy.aware, policy.weather, nextId)
           offered == {alternative_routes[i].path_type :
                          i \in 1..Len(alternative_routes)}
       IN IF out.route = None
          THEN /\ rr' = [NoCall EXCEPT !.calls = rr.calls + 1, !.original = rr.original,
                                       !.prev = flight, !.blocked = call.wp,
                                       !.offered = offered]
               /\ UNCHANGED <<flight, nextId>>
          ELSE /\ rr' = [calls |-> rr.calls + 1, original |-> rr.original,
                         result |-> out.route, prev |-> flight, blocked |-> call.wp,
                         k |-> out.k, selected |-> out.selected,
                         target |-> out.target, alt |-> out.alt,
                         offered |-> offered]
               /\ flight' = out.route
               /\ nextId' = out.route.id
    /\ UNCHANGED <<adjusterVars, otherVars>>

InitReroute ==
    /\ active_routes = <<>>
    /\ active_connections = <<>>
    /\ sent = <<>>
    /\ task = [t \in Tasks |-> IdleTask]
    /\ events = 0
    /\ flight \in InitialFlights
    /\ nextId = IdsPerRoute
    /\ rr = [NoCall EXCEPT !.original = flight.path_type]
    /\ OthersUnused

NextReroute ==
    \E call \in CallInputs(flight), types \in AltTypeLists, policy \in Policies :
       PPOReroute(call, types, policy)

SpecReroute == InitReroute /\ [][NextReroute]_vars

\* the same calls, for the generated flights and the client's flight
InitSplice ==
    /\ active_routes = <<>>
    /\ active_connections = <<>>
    /\ sent = <<>>
    /\ task = [t \in Tasks |-> IdleTask]
    /\ events = 0
    /\ flight \in InitialFlights \cup {ClientFlight}
    /\ nextId = IdsPerRoute
    /\ rr = [NoCall EXCEPT !.original = flight.path_type]
    /\ OthersUnused

SpecSplice == InitSplice /\ [][NextReroute]_vars

----------------------------------------------------------------------------
(* Properties of the adjuster *)

\* the step in which t's handle_blocked_waypoint returns None
EventFails(t) ==
    /\ task[t].pc \in {"idle", "receive", "generating"}
    /\ task'[t].pc = "returned"
    /\ task'[t].result = None

\* the step in which t's handle_blocked_waypoint returns a route
EventSucceeds(t) ==
    /\ task[t].pc = "generating"
    /\ task'[t].pc = "returned"
    /\ task'[t].result # None

\* every key is still mapped to the Route object it was mapped to
SameObjects ==
    /\ DOMAIN active_routes' = DOMAIN active_routes
    /\ \A k \in DOMAIN active_routes : active_routes'[k].obj = active_routes[k].obj

\* C1: a block event that fails leaves every registry key on the same Route
\* object, and the step that follows a failed event sends no route update.
C1_FailedEventPublishesNothing ==
    [][\A t \in Tasks :
          /\ EventFails(t) => SameObjects
          /\ (task[t].pc = "returned" /\ task[t].result = None /\ task'[t] # task[t])
                => sent' = sent]_vars

\* C3: an event whose blocked waypoint is the first of its route returns no
\* route and leaves the registry entry in place.
C3_FirstWaypointBlockedFails ==
    [][\A t \in Tasks :
          (task[t].pc = "generating" /\ task[t].blocked_index = 1
             /\ task'[t].pc = "returned")
          => (task'[t].result = None /\ SameObjects)]_vars

\* C4: no two handlers are between Lookup and the registry write for the same
\* route id at the same time.
C4_ExclusiveAccess ==
    \A t1 \in Tasks, t2 \in Tasks :
        (t1 # t2 /\ task[t1].pc = "generating" /\ task[t2].pc = "generating")
        => task[t1].route_id # task[t2].route_id

\* C5: a successful event whose blocked waypoint is not the first returns a
\* route whose reroute_history is the input route's followed by the pair
\* (blocked waypoint name, alternative path type).
C5_HistoryGrowsByOne ==
    [][\A t \in Tasks :
          (EventSucceeds(t) /\ task[t].blocked_index > 1)
          => LET h == task'[t].result.reroute_history
             IN /\ Len(h) = Len(task[t].pre_history) + 1
                /\ SubSeq(h, 1, Len(h) - 1) = task[t].pre_history
                /\ h[Len(h)][1] = task[t].blocked_name]_vars

\* C9: a successful event for route id r leaves the set of registry keys as
\* it was, and the entry under r is the new Route object carrying the id r.
C9_RekeyedUnderOriginalId ==
    [][\A t \in Tasks :
          EventSucceeds(t)
          => LET r == task[t].route_id
             IN /\ DOMAIN active_routes' = DOMAIN active_routes
                /\ r \in DOMAIN active_routes'
                /\ Str(active_routes'[r].id) = r
                /\ active_routes'[r].obj = task'[t].result.obj
                /\ \A k \in DOMAIN active_routes :
                      active_routes[k].obj # active_routes'[r].obj]_vars

\* C9 witness: a handler has just returned a route that was created under a
\* fresh id and now sits in the registry under the id of the event.
C9_Witness ==
    \E t \in Tasks :
        /\ task[t].pc = "returned"
        /\ task[t].result # None
        /\ task[t].route_id \in Keys
        /\ active_routes[task[t].route_id].obj = task[t].result.obj
        /\ task[t].result.obj # task[t].route_obj
        /\ task[t].result.obj # ParseUUID(task[t].route_id)

\* C10: once the only event so far has failed after it found its blocked
\* waypoint, every other waypoint of the registered route has the status it
\* had before the event.
C10_OnlyBlockedWaypointChanges ==
    \A t \in Tasks :
        (/\ events = 1
         /\ task[t].pc = "returned"
         /\ task[t].result = None
         /\ task[t].blocked_index > 0)
        => LET wps == active_routes[task[t].route_id].waypoints
           IN \A i \in 1..Len(wps) :
                 i # task[t].blocked_index => wps[i].status = task[t].pre_status[i]

----------------------------------------------------------------------------
(* Properties of the rerouter *)

SameCoordinates(a, b) == a.latitude = b.latitude /\ a.longitude = b.longitude

\* C2: the route a reroute returns has no waypoint with the blocked
\* waypoint's id, and up to the current-position waypoint its waypoints have
\* the ids and coordinates of the waypoints of the route it replaces.
C2_PrefixKeptBlockedGone ==
    rr.result # None
    => /\ \A i \in 1..Len(rr.result.waypoints) :
             rr.result.waypoints[i].id # rr.blocked.id
       /\ rr.k <= Len(rr.result.waypoints)
       /\ \A i \in 1..rr.k :
             /\ rr.result.waypoints[i].id = rr.prev.waypoints[i].id
             /\ SameCoordinates(rr.result.waypoints[i], rr.prev.waypoints[i])

\* C6: the alternative a reroute selects has neither the flight's original
\* path type nor a path type recorded in the history of the route it replaces.
C6_NeverRetriesPathType ==
    rr.result # None
    => /\ rr.selected # rr.original
       /\ \A i \in 1..Len(rr.prev.reroute_history) :
             rr.prev.reroute_history[i][2] # rr.selected

\* C7: the route a reroute returns starts at the coordinates of its origin
\* and ends at the coordinates of its destination.
C7_EndpointsPinned ==
    rr.result # None
    => LET wps == rr.result.waypoints
       IN /\ Len(wps) > 0
          /\ SameCoordinates(wps[1], rr.result.origin)
          /\ SameCoordinates(wps[Len(wps)], rr.result.destination)

\* C8: the waypoints of the route a reroute returns carry, in list order, the
\* sequence numbers 1, 2, ..., N.
C8_SequenceContiguous ==
    rr.result # None
    => \A i \in 1..Len(rr.result.waypoints) : rr.result.waypoints[i].order = i

\* C8 witness: a second reroute in a row has appended renumbered copies of
\* an alternative's waypoints behind the kept prefix.
C8_Witness ==
    /\ rr.calls >= 2
    /\ rr.result # None
    /\ rr.k < Len(rr.result.waypoints)
    /\ LastIndexOfId(rr.prev.waypoints, rr.blocked.id, Len(rr.prev.waypoints)) > rr.k
    /\ rr.prev.optimization_method = "ppo"

----------------------------------------------------------------------------
(* Properties of the entry points *)

\* the sockets registered for route_id
Subscribers(conns, route_id) ==
    IF route_id \in DOMAIN conns
    THEN {conns[route_id][i] : i \in 1..Len(conns[route_id])}
    ELSE {}

\* the messages appended to sent by the step
NewlySent == {sent'[i] : i \in (Len(sent) + 1)..Len(sent')}

\* C11: the step by which an entry point finishes a request whose reroute
\* succeeded for route id r sends every socket subscribed to r a route_update
\* for r that carries the new route; a socket whose send raised is dropped
\* instead.
C11_SuccessIsNotified ==
    [][\A t \in Tasks :
          (task[t].pc = "returned" /\ task[t].result # None /\ task'[t].pc # "returned")
          => \A ws \in Subscribers(active_connections, task[t].route_id) :
                \/ [type |-> "route_update", route_id |-> task[t].route_id,
                    data |-> RouteDict(task[t].result), to |-> ws] \in NewlySent
                \/ ws \notin Subscribers(active_connections', task[t].route_id)]_vars

----------------------------------------------------------------------------
(* WebsocketManager broadcasts, one send at a time (websocket_manager.py) *)

\* the websockets of the broadcast and monitor specifications
Sockets == {"ws1", "ws2", "ws3"}

\* broadcasts per behaviour
MaxBroadcasts == 2

\* bc while no broadcast has run.  i counts the elements the list iterator
\* has yielded and cur is the socket whose send_json is awaited;
\* disconnected_sockets is the local list of the code.  succeeded, start and
\* disturbed record what happened: the sockets whose send returned, the list
\* at the start, and whether somebody else removed a socket meanwhile.
NoBroadcast ==
    [pc |-> "idle", type |-> "", route_id |-> Str(0), data |-> None,
     i |-> 0, cur |-> "", detached |-> FALSE, disconnected_sockets |-> <<>>,
     succeeded |-> <<>>, start |-> <<>>, disturbed |-> FALSE, count |-> 0]

\* the list object the for loop iterates.  disconnect deletes the key with
\* the last socket, and a later connect puts a new list under the key: the
\* loop is then left with the emptied list.
IteratedList(conns, b) ==
    IF b.detached \/ b.route_id \notin DOMAIN conns THEN <<>> ELSE conns[b.route_id]

\* the JSON message of a broadcast, as socket ws receives it
Message(b, ws) ==
    [type |-> b.type, route_id |-> b.route_id, data |-> b.data, to |-> ws]

\* broadcast_route_update / broadcast_waypoint_status up to the first
\* send_json (lines 40-51, 65-76): returns at once when nobody is subscribed
BroadcastBegin(w, type, route_id, data) ==
    LET b0 == [NoBroadcast EXCEPT !.type = type, !.route_id = route_id,
                                  !.data = data, !.count = w.bc.count + 1]
    IN IF route_id \notin DOMAIN w.conns
       THEN [w EXCEPT !.bc = [b0 EXCEPT !.pc = "returned"]]
       ELSE [w EXCEPT !.bc = [b0 EXCEPT !.pc = "sending", !.i = 1,
                                        !.cur = w.conns[route_id][1],
                                        !.start = w.conns[route_id]]]

\* the try/except around one send with the except clause missing: the
\* exception of send_json leaves the broadcast
AfterSend_Propagates(b, outcome) ==
    IF outcome = "ok"
    THEN [b EXCEPT !.succeeded = Append(@, b.cur)]
    ELSE [b EXCEPT !.pc = "failed"]

\* the try/except around one send (lines 49-55, 74-80)
AfterSend(b, outcome) ==
    IF outcome = "ok"
    THEN [b EXCEPT !.succeeded = Append(@, b.cur)]
    ELSE [b EXCEPT !.disconnected_sockets = Append(@, b.cur)]

\* lines 57-59, 82-84: disconnect every socket of disconnected_sockets
RECURSIVE Cleanup(_, _, _)
Cleanup(conns, route_id, socks) ==
    IF Len(socks) = 0 THEN conns
    ELSE Cleanup(disconnect(conns, route_id, Head(socks)), route_id, Tail(socks))

\* the broadcast from the return of the awaited send_json to the next
\* send_json, or through the clean-up to its return
BroadcastResume(w, outcome) ==
    LET b1 == AfterSend(w.bc, outcome)
        sent1 == IF outcome = "ok" THEN Append(w.sent, Message(w.bc, w.bc.cur))
                 ELSE w.sent
        list == IteratedList(w.conns, b1)
    IN IF b1.pc = "failed"
       THEN [conns |-> w.conns, sent |-> sent1, bc |-> [b1 EXCEPT !.cur = ""]]
       ELSE IF b1.i < Len(list)
       THEN [conns |-> w.conns, sent |-> sent1,
             bc |-> [b1 EXCEPT !.i = b1.i + 1, !.cur = list[b1.i + 1]]]
       ELSE [conns |-> Cleanup(w.conns, b1.route_id, b1.disconnected_sockets),
             sent |-> sent1,
             bc |-> [b1 EXCEPT !.pc = "returned", !.cur = ""]]

\* what a disconnect by an endpoint means to the broadcast in progress
AfterForeignDisconnect(b, conns2) ==
    IF b.pc # "sending" THEN b
    ELSE [b EXCEPT !.disturbed = TRUE,
                   !.detached = @ \/ b.route_id \notin DOMAIN conns2]

World == [conns |-> active_connections, sent |-> sent, bc |-> bc]

----------------------------------------------------------------------------
(* Specification of the broadcasts: endpoints come and go while a caller    *)
(* broadcasts to the route                                                  *)

BcRoute == Str(1)

\* websocket_endpoint line 77: a client connects; a websocket connects once
BcConnect(ws) ==
    /\ task[ws].pc = "idle"
    /\ task' = [task EXCEPT ![ws].pc = "receive", ![ws].via = "ws",
                            ![ws].route_id = BcRoute]
    /\ active_connections' = connect(active_connections, BcRoute, ws)
    /\ UNCHANGED <<active_routes, sent, nextId, events, rerouteVars, otherVars>>

\* websocket_endpoint lines 93-98: receive_json raised, the endpoint leaves
BcDisconnect(ws) ==
    /\ task[ws].pc = "receive"
    /\ task' = [task EXCEPT ![ws].pc = "closed"]
    /\ active_connections' = disconnect(active_connections, BcRoute, ws)
    /\ bc' = AfterForeignDisconnect(bc, active_connections')
    /\ UNCHANGED <<active_routes, sent, nextId, events, rerouteVars,
                   mon, ctl, opt, wx, gen>>

\* a caller starts broadcast_route_update or broadcast_waypoint_status
BcBroadcast(type) ==
    /\ bc.pc # "sending"
    /\ bc.count < MaxBroadcasts
    /\ LET data == IF type = "route_update" THEN RouteDict(None)
                   ELSE [waypoint_id |-> Str(2), status |-> ACTIVE]
           w == BroadcastBegin(World, type, BcRoute, data)
       IN bc' = w.bc
    /\ UNCHANGED <<active_routes, active_connections, sent, task, nextId, events,
                   rerouteVars, mon, ctl, opt, wx, gen>>

\* the awaited send_json returns or raises, and the broadcast goes on
BcSendReturns(outcome) ==
    /\ bc.pc = "sending"
    /\ LET w == BroadcastResume(World, outcome)
       IN /\ bc' = w.bc
          /\ sent' = w.sent
          /\ active_connections' = w.conns
    /\ UNCHANGED <<active_routes, task, nextId, events, rerouteVars,
                   mon, ctl, opt, wx, gen>>

InitBroadcast ==
    /\ active_routes = <<>>
    /\ active_connections = <<>>
    /\ sent = <<>>
    /\ task = [t \in Sockets |-> IdleTask]
    /\ nextId = 0
    /\ events = 0
    /\ flight = None
    /\ rr = None
    /\ bc = NoBroadcast
    /\ mon = None
    /\ ctl = None
    /\ opt = None
    /\ wx = None
    /\ gen = None

NextBroadcast ==
    \/ \E ws \in Sockets : BcConnect(ws)
    \/ \E ws \in Sockets : BcDisconnect(ws)
    \/ \E type \in {"route_update", "waypoint_status"} : BcBroadcast(type)
    \/ \E outcome \in {"ok", "raise"} : BcSendReturns(outcome)

SpecBroadcast == InitBroadcast /\ [][NextBroadcast]_vars

----------------------------------------------------------------------------
(* Properties of the broadcasts *)

SeqRange(q) == {q[i] : i \in 1..Len(q)}

\* a step of the broadcast itself: a send_json returned or raised
BroadcastStep == bc.pc = "sending" /\ (bc'.pc # "sending" \/ bc'.i # bc.i)

\* C12: a send that raises never ends the broadcast or makes it fail: the
\* loop goes on to the next socket of the list and ends only when the list is
\* exhausted; the broadcast removes from the list only sockets whose send
\* raised; when it returns, every socket whose send raised is out of the
\* route's list, every socket whose send succeeded is still in it unless its
\* endpoint left, and, if no endpoint left meanwhile, every socket of the
\* list was attempted.
C12_SendFailureIsContained ==
    [][BroadcastStep
       => LET list == IteratedList(active_connections, bc)
              before == Subscribers(active_connections, bc.route_id)
              after == Subscribers(active_connections', bc.route_id)
              raised == SeqRange(bc'.disconnected_sockets)
              succeeded == SeqRange(bc'.succeeded)
          IN /\ bc'.pc # "failed"
             /\ bc.i < Len(list) => (bc'.pc = "sending" /\ bc'.cur = list[bc.i + 1])
             /\ (before \ after) \subseteq raised
             /\ bc'.pc = "returned"
                => /\ raised \cap after = {}
                   /\ (succeeded \cap before) \subseteq after
                   /\ ~bc.disturbed
                      => SeqRange(bc.start) \subseteq (raised \cup succeeded)]_vars

\* C12 witness: a broadcast has returned after the send to its first socket
\* raised and a later send succeeded; the first is gone from the list and
\* the other is still in it.
C12_Witness ==
    /\ bc.pc = "returned"
    /\ Len(bc.start) >= 2
    /\ Len(bc.disconnected_sockets) >= 1
    /\ bc.disconnected_sockets[1] = bc.start[1]
    /\ Len(bc.succeeded) >= 1
    /\ bc.succeeded[1] \in Subscribers(active_connections, bc.route_id)
    /\ bc.start[1] \notin Subscribers(active_connections, bc.route_id)
    /\ sent # <<>>

----------------------------------------------------------------------------
(* RouteMonitor (backend/realtime/route_monitor.py) *)

PASSED == "passed"

\* scans, calls of start_monitoring and calls of register_route per behaviour
MaxScans == 2
MaxStarts == 2
MaxRegistered == 2

\* the websockets and the request handler of the monitor specification
MonSockets == {"ws1"}
MonHandler == "http1"

\* mon before start_monitoring.  monitoring_task is 0 for None, else the
\* number of the task object; loop is where that task's coroutine stands:
\* "created" (not yet run), "sending" (awaiting a send_json of a broadcast),
\* "sleeping" (line 90), "ended" (returned or cancelled), "failed" (line 94).
\* must_cancel: cancel() was called and CancelledError is yet to be thrown.
\* todo are the items of the snapshot still to visit, route the item in
\* hand, wi the index of its next waypoint, current_seq the sequence of
\* current_wp.  detached holds the Route objects of the snapshot that the
\* registry has dropped, old the objects created more than 24 hours ago,
\* aware the objects whose created_at carries a UTC offset.
\* snapshot, visited and during record the scan: its keys, the keys visited,
\* and the registry changes made while it was suspended.
NoMonitor ==
    [monitoring_task |-> 0, loop |-> "none", must_cancel |-> FALSE,
     live |-> FALSE, size |-> 0,
     todo |-> <<>>, route |-> None, wi |-> 0, current_seq |-> 0,
     detached |-> <<>>, old |-> {}, aware |-> {},
     snapshot |-> <<>>, visited |-> <<>>, during |-> {}, scans |-> 0]

NoCaller == [pc |-> "idle", starts |-> 0, stops |-> 0, registered |-> 0]

\* the keys of a dict in insertion order: ids are drawn in increasing order
RECURSIVE KeysInOrder(_)
KeysInOrder(keys) ==
    IF keys = {} THEN <<>>
    ELSE LET k == CHOOSE x \in keys : \A y \in keys : ParseUUID(x) <= ParseUUID(y)
         IN <<k>> \o KeysInOrder(keys \ {k})

\* line 52 over the dict itself instead of a copy: the iterator raises
\* RuntimeError once the dict has changed size
ScanItems_Live(routes) ==
    LET ks == KeysInOrder(DOMAIN routes)
    IN [live |-> TRUE, size |-> Len(ks),
        items |-> [i \in 1..Len(ks) |-> [key |-> ks[i], obj |-> routes[ks[i]].obj]]]

\* line 49: active_routes.copy(), a new dict over the same Route objects
ScanItems(routes) ==
    LET ks == KeysInOrder(DOMAIN routes)
    IN [live |-> FALSE, size |-> Len(ks),
        items |-> [i \in 1..Len(ks) |-> [key |-> ks[i], obj |-> routes[ks[i]].obj]]]

\* the Route object number obj as it is now: objects are shared between the
\* registry and the snapshot
Registered(routes, obj) == {k \in DOMAIN routes : routes[k].obj = obj}
Deref(st, obj) ==
    IF Registered(st.routes, obj) # {}
    THEN st.routes[CHOOSE k \in Registered(st.routes, obj) : TRUE]
    ELSE st.mon.detached[obj]

\* the assignment of lines 71 and 82 left out
SetStatus_Lost(st, obj, wi, status) == st

\* waypoint.status = status on waypoint wi of object obj
SetStatus(st, obj, wi, status) ==
    IF Registered(st.routes, obj) # {}
    THEN [st EXCEPT !.routes = [k \in DOMAIN st.routes |->
                 IF st.routes[k].obj = obj
                 THEN [st.routes[k] EXCEPT !.waypoints[wi].status = status]
                 ELSE st.routes[k]]]
    ELSE [st EXCEPT !.mon.detached[obj].waypoints[wi].status = status]

\* Route.get_current_waypoint: the first waypoint whose status is ACTIVE
RECURSIVE FirstActive(_, _)
FirstActive(wps, i) ==
    IF i > Len(wps) THEN None
    ELSE IF wps[i].status = ACTIVE THEN wps[i]
    ELSE FirstActive(wps, i + 1)
get_current_waypoint(route) == FirstActive(route.waypoints, 1)

\* lines 66-87: the status the scan gives waypoint wp
ScanStatus(wp, current_seq) ==
    IF wp.order < current_seq /\ wp.status # BLOCKED THEN PASSED
    ELSE IF wp.order = current_seq /\ wp.status # BLOCKED THEN ACTIVE
    ELSE wp.status

\* the scan from where it stands to its next suspension: an awaited
\* send_json ("sending"), the sleep of line 90 ("sleeping"), or the end of
\* the loop by an exception ("failed")
RECURSIVE RunScan(_)
RunScan(st) ==
    LET m == st.mon
    IN IF m.route = None
       THEN IF m.live /\ Cardinality(DOMAIN st.routes) # m.size
            THEN [st EXCEPT !.mon.loop = "failed"]
            ELSE IF Len(m.todo) = 0
            THEN [st EXCEPT !.mon.loop = "sleeping", !.mon.scans = m.scans + 1]
            ELSE LET item == Head(m.todo)
                     route == Deref(st, item.obj)
                     current_wp == get_current_waypoint(route)
                     next == [st EXCEPT !.mon.todo = Tail(m.todo),
                                        !.mon.visited = Append(m.visited, item.key)]
                 IN IF item.obj \in m.aware
                    THEN [next EXCEPT !.mon.loop = "failed"]
                    ELSE IF item.obj \in m.old \/ current_wp = None
                    THEN RunScan(next)
                    ELSE RunScan([next EXCEPT !.mon.route = item, !.mon.wi = 1,
                                              !.mon.current_seq = current_wp.order])
       ELSE LET route == Deref(st, m.route.obj)
            IN IF m.wi > Len(route.waypoints)
               THEN RunScan([st EXCEPT !.mon.route = None, !.mon.wi = 0])
               ELSE LET wp == route.waypoints[m.wi]
                        status == ScanStatus(wp, m.current_seq)
                        on == [st EXCEPT !.mon.wi = m.wi + 1]
                    IN IF status = wp.status
                       THEN RunScan(on)
                       ELSE LET set == SetStatus(on, m.route.obj, m.wi, status)
                                w == BroadcastBegin(
                                        [conns |-> set.conns, sent |-> set.sent, bc |-> set.bc],
                                        "waypoint_status", m.route.key,
                                        [waypoint_id |-> Str(wp.id), status |-> status])
                            IN IF w.bc.pc = "sending"
                               THEN [set EXCEPT !.bc = w.bc, !.mon.loop = "sending"]
                               ELSE RunScan([set EXCEPT !.bc = w.bc])

\* lines 49-52: a new scan begins
BeginScan(st) ==
    LET sc == ScanItems(st.routes)
    IN RunScan([st EXCEPT !.mon.todo = sc.items, !.mon.live = sc.live,
                          !.mon.size = sc.size, !.mon.route = None, !.mon.wi = 0,
                          !.mon.detached = <<>>,
                          !.mon.snapshot = [i \in 1..Len(sc.items) |-> sc.items[i].key],
                          !.mon.visited = <<>>, !.mon.during = {}])

MonState ==
    [routes |-> active_routes, conns |-> active_connections, sent |-> sent,
     bc |-> bc, mon |-> mon]

\* the variables take the values of st
Becomes(st) ==
    /\ active_routes' = st.routes
    /\ active_connections' = st.conns
    /\ sent' = st.sent
    /\ bc' = st.bc
    /\ mon' = st.mon

\* the task runs for the first time, or wakes up from its sleep
MonScan ==
    /\ mon.loop \in {"created", "sleeping"}
    /\ ~mon.must_cancel
    /\ mon.scans < MaxScans
    /\ Becomes(BeginScan(MonState))
    /\ UNCHANGED <<task, nextId, events, rerouteVars, ctl, opt, wx, gen>>

\* the send_json the scan awaits returns or raises
MonSendReturns(outcome) ==
    /\ mon.loop = "sending"
    /\ ~mon.must_cancel
    /\ LET w == BroadcastResume(World, outcome)
           st == [MonState EXCEPT !.conns = w.conns, !.sent = w.sent, !.bc = w.bc]
       IN Becomes(IF w.bc.pc = "sending" THEN st
                  ELSE IF w.bc.pc = "failed" THEN [st EXCEPT !.mon.loop = "failed"]
                  ELSE RunScan(st))
    /\ UNCHANGED <<task, nextId, events, rerouteVars, ctl, opt, wx, gen>>

\* CancelledError thrown into a send_json that a broadcast awaits, if the
\* broadcast's except clause caught it like any failed send
CancelAtSend_Swallowed(st) ==
    LET w == BroadcastResume([conns |-> st.conns, sent |-> st.sent, bc |-> st.bc], "raise")
        st1 == [st EXCEPT !.conns = w.conns, !.sent = w.sent, !.bc = w.bc]
    IN IF w.bc.pc = "sending" THEN st1 ELSE RunScan(st1)

\* CancelledError thrown into a send_json that a broadcast awaits: it is no
\* Exception, leaves the broadcast and the scan, and line 92 catches it
CancelAtSend(st) ==
    [st EXCEPT !.bc.pc = "cancelled", !.bc.cur = "", !.mon.loop = "ended"]

\* the event loop throws CancelledError into the cancelled task
MonCancelled ==
    /\ mon.must_cancel
    /\ mon.loop \in {"created", "sleeping", "sending"}
    /\ LET st0 == [MonState EXCEPT !.mon.must_cancel = FALSE]
       IN Becomes(IF mon.loop = "sending" THEN CancelAtSend(st0)
                  ELSE [st0 EXCEPT !.mon.loop = "ended"])
    /\ UNCHANGED <<task, nextId, events, rerouteVars, ctl, opt, wx, gen>>

\* start_monitoring (lines 28-32)
StartMonitoring ==
    /\ ctl.pc \in {"idle", "stopped"}
    /\ ctl.starts < MaxStarts
    /\ ctl' = [ctl EXCEPT !.pc = "idle", !.starts = ctl.starts + 1]
    /\ mon' = IF mon.monitoring_task = 0
              THEN [mon EXCEPT !.monitoring_task = ctl.starts + 1, !.loop = "created",
                               !.must_cancel = FALSE]
              ELSE mon
    /\ UNCHANGED <<adjusterVars, nextId, rerouteVars, bc, opt, wx, gen>>

\* stop_monitoring up to its await (lines 36-39)
StopMonitoring ==
    /\ ctl.pc \in {"idle", "stopped"}
    /\ ctl.stops < ctl.starts
    /\ IF mon.monitoring_task = 0
       THEN /\ ctl' = [ctl EXCEPT !.pc = "stopped", !.stops = ctl.stops + 1]
            /\ UNCHANGED mon
       ELSE /\ ctl' = [ctl EXCEPT !.pc = "stopping"]
            /\ mon' = [mon EXCEPT !.must_cancel =
                          mon.loop \in {"created", "sleeping", "sending"}]
    /\ UNCHANGED <<adjusterVars, nextId, rerouteVars, bc, opt, wx, gen>>

\* the awaited task is done: stop_monitoring goes on and returns (lines 40-43)
StopReturns ==
    /\ ctl.pc = "stopping"
    /\ mon.loop \in {"ended", "failed"}
    /\ ctl' = [ctl EXCEPT !.pc = "stopped", !.stops = ctl.stops + 1]
    /\ mon' = [mon EXCEPT !.monitoring_task = 0]
    /\ UNCHANGED <<adjusterVars, nextId, rerouteVars, bc, opt, wx, gen>>

----------------------------------------------------------------------------
(* The registry while the monitor runs *)

\* the registry is about to drop the object under key k: the snapshot keeps
\* the object
Dropping(m, k, kind) ==
    IF m.loop # "sending" THEN m
    ELSE LET obj == active_routes[k].obj
             held == {m.todo[i].obj : i \in 1..Len(m.todo)}
                     \cup (IF m.route = None THEN {} ELSE {m.route.obj})
         IN [m EXCEPT !.during = @ \cup {kind},
                      !.detached = IF obj \in held THEN Put(@, obj, active_routes[k])
                                   ELSE @]

\* register_route (lines 132-135) of a route a caller built
MonRegister ==
    /\ ctl.registered < MaxRegistered
    /\ Cardinality(Keys) < MaxRoutes
    /\ LET route == [_generate_route(BLR, DEL, "direct", <<>>, nextId, 1)
                       EXCEPT !.optimization_method = "aco"]
       IN active_routes' = Put(active_routes, Str(route.id), route)
    /\ nextId' = nextId + IdsPerRoute
    /\ ctl' = [ctl EXCEPT !.registered = ctl.registered + 1]
    /\ mon' = IF mon.loop = "sending" THEN [mon EXCEPT !.during = @ \cup {"add"}]
              ELSE mon
    /\ UNCHANGED <<active_connections, sent, task, events, rerouteVars,
                   bc, opt, wx, gen>>

\* register_route of a route read by Route.from_dict from data whose
\* "created_at" has a UTC offset: datetime.fromisoformat returns an aware
\* datetime, and "current_time - route.created_at" raises TypeError
MonRegisterAware ==
    /\ ctl.registered < MaxRegistered
    /\ Cardinality(Keys) < MaxRoutes
    /\ LET route == [_generate_route(BLR, DEL, "direct", <<>>, nextId, 1)
                       EXCEPT !.optimization_method = "aco"]
       IN /\ active_routes' = Put(active_routes, Str(route.id), route)
          /\ mon' = [mon EXCEPT !.aware = @ \cup {route.obj}]
    /\ nextId' = nextId + IdsPerRoute
    /\ ctl' = [ctl EXCEPT !.registered = ctl.registered + 1]
    /\ UNCHANGED <<active_connections, sent, task, events, rerouteVars,
                   bc, opt, wx, gen>>

\* what handle_blocked_waypoint stores (lines 118-128), in calm weather
MonOptimized(t) ==
    ACOOptimize(NewRoutes(t, [p \in PathTypes |-> 2]), [i \in 1..NumSamples |-> 1])

\* handle_blocked_waypoint resumes and replaces the registry entry
MonReplace(t) ==
    /\ task[t].pc = "generating"
    /\ HandleFinish(t, MonOptimized(t))
    /\ nextId' = nextId + Len(NewRoutes(t, [p \in PathTypes |-> 2])) * IdsPerRoute
    /\ mon' = IF task[t].route_id \in Keys
              THEN Dropping(mon, task[t].route_id, "replace")
              ELSE IF mon.loop = "sending" THEN [mon EXCEPT !.during = @ \cup {"add"}]
              ELSE mon
    /\ UNCHANGED <<active_connections, sent, events, rerouteVars, bc, ctl, opt, wx, gen>>

\* del active_routes[k] by a holder of the shared registry
MonRemove(k) ==
    /\ k \in Keys
    /\ active_routes' = Del(active_routes, k)
    /\ mon' = Dropping(mon, k, "remove")
    /\ UNCHANGED <<active_connections, sent, task, nextId, events, rerouteVars,
                   bc, ctl, opt, wx, gen>>

\* a day passes: the routes that exist are older than 24 hours from now on
MonDayPasses ==
    /\ mon.loop = "sleeping"
    /\ Keys # {}
    /\ \E k \in Keys : active_routes[k].obj \notin mon.old
    /\ mon' = [mon EXCEPT !.old = @ \cup {active_routes[k].obj : k \in Keys}]
    /\ UNCHANGED <<adjusterVars, nextId, rerouteVars, bc, ctl, opt, wx, gen>>

InitMonitor ==
    /\ active_routes = <<>>
    /\ active_connections = <<>>
    /\ sent = <<>>
    /\ task = [t \in MonSockets \cup {MonHandler} |-> IdleTask]
    /\ nextId = 0
    /\ events = MaxEvents - 1
    /\ flight = None
    /\ rr = None
    /\ bc = NoBroadcast
    /\ mon = NoMonitor
    /\ ctl = NoCaller
    /\ opt = None
    /\ wx = None
    /\ gen = None

\* the steps of the monitoring task
MonitorStep ==
    \/ MonScan
    \/ \E outcome \in {"ok", "raise"} : MonSendReturns(outcome)
    \/ MonCancelled

NextMonitor ==
    \/ MonitorStep
    \/ StartMonitoring
    \/ StopMonitoring
    \/ StopReturns
    \/ MonRegister
    \/ \E k \in Keys : MonRemove(k)
    \/ \E route_id \in Keys : \E waypoint_id \in WaypointIdInputs(route_id) :
          HttpBlock(MonHandler, route_id, waypoint_id)
    \/ MonReplace(MonHandler)
    \/ HttpRespond(MonHandler)
    \/ MonDayPasses
    \/ \E ws \in MonSockets : BcConnect(ws)
    \/ \E ws \in MonSockets : BcDisconnect(ws)

SpecMonitor == InitMonitor /\ [][NextMonitor]_vars

\* the monitor's life cycle alone, with routes a client sent among the
\* registered ones
NextRestart ==
    \/ MonScan
    \/ MonCancelled
    \/ StartMonitoring
    \/ StopMonitoring
    \/ StopReturns
    \/ MonRegister
    \/ MonRegisterAware
    \/ \E k \in Keys : MonRemove(k)
    \/ MonDayPasses

SpecRestart == InitMonitor /\ [][NextRestart]_vars

\* the event loop runs a task that is ready: the cancelled monitoring task,
\* and stop_monitoring once the task it awaits is done
SpecMonitorFair ==
    SpecMonitor /\ WF_vars(MonCancelled) /\ WF_vars(StopReturns)

----------------------------------------------------------------------------
(* Properties of the monitor *)

\* stop_monitoring has returned and left no task behind
Stopped ==
    /\ ctl.pc = "stopped"
    /\ mon.monitoring_task = 0
    /\ mon.loop \in {"none", "ended", "failed"}

\* C13: a stop_monitoring that awaits the monitoring task (created, asleep
\* or suspended in a broadcast) eventually returns; the cancellation it
\* throws into the task ends the loop wherever the task stands; once it has
\* returned the loop is over and monitoring_task is None, and the next
\* start_monitoring creates a new task.
C13_StopTerminates ==
    /\ (ctl.pc = "stopping") ~> Stopped
    /\ [](ctl.pc = "stopped" => Stopped)
    /\ [][(mon.must_cancel /\ ~mon'.must_cancel) => mon'.loop = "ended"]_vars
    /\ [][(ctl.pc = "stopped" /\ ctl'.starts > ctl.starts)
          => (mon'.loop = "created" /\ mon'.monitoring_task # 0)]_vars

\* C13 witness: a stop that caught the scan awaiting a send_json has
\* returned, and start_monitoring has created the second task.
C13_Witness ==
    /\ bc.pc = "cancelled"
    /\ ctl.stops >= 1
    /\ ctl.starts = 2
    /\ mon.monitoring_task = 2
    /\ mon.loop = "created"

\* the task's coroutine has not finished
Running(loop) == loop \in {"created", "sleeping", "sending"}

\* C14: whatever is added to, replaced in or removed from the registry
\* while a scan is suspended, the loop never ends by an exception: a running
\* loop ends only by the cancellation of stop_monitoring, a suspended scan
\* has visited a prefix of its snapshot, and a scan that reaches its sleep
\* has visited exactly the keys of its snapshot.
C14_ScanSurvivesRegistryChanges ==
    /\ [](/\ mon.loop # "failed"
          /\ mon.loop = "sending"
             => /\ Len(mon.visited) <= Len(mon.snapshot)
                /\ mon.visited = SubSeq(mon.snapshot, 1, Len(mon.visited))
          /\ (mon.loop = "sleeping" /\ mon.scans > 0) => mon.visited = mon.snapshot)
    /\ [][(Running(mon.loop) /\ ~Running(mon'.loop)) => mon.must_cancel]_vars
    /\ [][(mon.loop = "sending" /\ mon.during # {} /\ ~mon.must_cancel
           /\ mon'.loop # mon.loop)
          => (mon'.loop = "sleeping" /\ mon'.scans = mon.scans + 1)]_vars

\* C14 witness: a scan has reached its sleep after a route was replaced, one
\* was removed and one was added while it awaited a send_json.
C14_Witness ==
    /\ mon.loop = "sleeping"
    /\ mon.during = {"add", "replace", "remove"}
    /\ Len(mon.snapshot) >= 1
    /\ mon.visited = mon.snapshot
    /\ DOMAIN active_routes # SeqRange(mon.snapshot)

----------------------------------------------------------------------------
(* Weather acquisition (backend/api/weather_api.py,                         *)
(* backend/services/weather_service.py)                                     *)

\* WeatherAPI.max_retries
MaxRetries == 3

\* the points of a route (origin, waypoints, destination), and the
\* acquisitions per behaviour
WxPoints == 3
MaxAcquisitions == 2

\* the attempts a fetcher makes before it falls back: fetch_weather loops
\* over range(max_retries), _fetch_weather_data tries once
Attempts(fetcher) == IF fetcher = "fetch_weather" THEN MaxRetries ELSE 1

\* wx before an acquisition.  points is the number of points, k the point in
\* hand, attempts the upstream attempts made for it; weather_data holds one
\* sample per point done: its kind, the attempts it took, whether one of
\* them succeeded, and whether it came from the cache.  cache maps a point
\* to "none", "real", "synthetic" or "corrupt".
NoWeather ==
    [pc |-> "idle", fetcher |-> "", points |-> 0, k |-> 0, attempts |-> 0,
     weather_data |-> <<>>, cache |-> [p \in 1..WxPoints |-> "none"], runs |-> 0]

Sample(kind, attempts, ok, cached) ==
    [kind |-> kind, attempts |-> attempts, ok |-> ok, cached |-> cached]

\* the loop of get_weather_for_route moves to the next point (line 54)
NextPoint(w, sample) ==
    LET w1 == [w EXCEPT !.weather_data = Append(@, sample), !.attempts = 0]
    IN IF w.k < w.points
       THEN [w1 EXCEPT !.k = w.k + 1, !.pc = "point"]
       ELSE [w1 EXCEPT !.pc = "done"]

\* the except clause if it were missing: the failure of the request leaves
\* the fetcher and the loop over the points
AfterFailure_Raises(w) == [w EXCEPT !.pc = "raised"]

\* weather_api.py lines 74-89, weather_service.py lines 203-208: a failed
\* attempt is retried while attempts are left, then the fallback is returned
AfterFailure(w) ==
    IF w.attempts < Attempts(w.fetcher)
    THEN [w EXCEPT !.pc = "upstream"]
    ELSE NextPoint(w, Sample("synthetic", w.attempts, FALSE, FALSE))

\* a caller asks for the weather of a route's points
WxBegin(fetcher, n) ==
    /\ wx.pc \in {"idle", "done"}
    /\ wx.runs < MaxAcquisitions
    /\ wx' = [wx EXCEPT !.pc = "point", !.fetcher = fetcher, !.points = n, !.k = 1,
                        !.attempts = 0, !.weather_data = <<>>, !.runs = wx.runs + 1]
    /\ UNCHANGED <<adjusterVars, nextId, rerouteVars, bc, mon, ctl, opt, gen>>

\* the cache is looked up (weather_service.py 55-68, weather_api.py 41-46):
\* a readable entry is the sample, anything else sends the request upstream
WxLookup ==
    /\ wx.pc = "point"
    /\ wx' = IF wx.cache[wx.k] \in {"real", "synthetic"}
             THEN NextPoint(wx, Sample(wx.cache[wx.k], 0, FALSE, TRUE))
             ELSE [wx EXCEPT !.pc = "upstream"]
    /\ UNCHANGED <<adjusterVars, nextId, rerouteVars, bc, mon, ctl, opt, gen>>

\* one upstream attempt (client.get, raise_for_status, parsing) succeeds or
\* raises; the sample is then written to the cache, which may fail silently
\* (weather_service.py 71-79; json.dumps of weather.dict() always fails in
\* weather_api.py line 70)
WxAttempt(ok, saved) ==
    /\ wx.pc = "upstream"
    /\ LET w == [wx EXCEPT !.attempts = wx.attempts + 1]
           out == IF ok THEN NextPoint(w, Sample("real", w.attempts, TRUE, FALSE))
                  ELSE AfterFailure(w)
           sampled == Len(out.weather_data) > Len(wx.weather_data)
           caches == saved /\ sampled /\ wx.fetcher = "_fetch_weather_data"
       IN wx' = IF caches
                THEN [out EXCEPT !.cache[wx.k] = out.weather_data[Len(out.weather_data)].kind]
                ELSE out
    /\ UNCHANGED <<adjusterVars, nextId, rerouteVars, bc, mon, ctl, opt, gen>>

InitWeather ==
    /\ active_routes = <<>>
    /\ active_connections = <<>>
    /\ sent = <<>>
    /\ task = [t \in Tasks |-> IdleTask]
    /\ nextId = 0
    /\ events = 0
    /\ flight = None
    /\ rr = None
    /\ bc = None
    /\ mon = None
    /\ ctl = None
    /\ opt = None
    /\ \E cache \in [1..WxPoints -> {"none", "corrupt"}] :
          wx = [NoWeather EXCEPT !.cache = cache]
    /\ gen = None

NextWeather ==
    \/ \E n \in 1..WxPoints : WxBegin("_fetch_weather_data", n)
    \/ WxBegin("fetch_weather", 1)
    \/ WxLookup
    \/ \E ok \in BOOLEAN, saved \in BOOLEAN : WxAttempt(ok, saved)

SpecWeather == InitWeather /\ [][NextWeather]_vars

\* C15: a request for a point makes at most 3 upstream attempts and ends
\* with a sample, never with an exception: the sample of a request that went
\* upstream is real if one of its attempts succeeded and synthetic if none
\* did, a sample from the cache took no attempt, and an acquisition that is
\* done has a sample for every point of the route.
C15_WeatherAlwaysSampled ==
    /\ wx.pc # "raised"
    /\ wx.attempts <= MaxRetries
    /\ \A i \in 1..Len(wx.weather_data) :
          LET smp == wx.weather_data[i]
          IN /\ smp.attempts <= MaxRetries
             /\ smp.kind \in {"real", "synthetic"}
             /\ smp.cached => smp.attempts = 0
             /\ ~smp.cached => (smp.attempts >= 1 /\ (smp.kind = "real" <=> smp.ok))
    /\ wx.pc = "done" => Len(wx.weather_data) = wx.points
    /\ wx.pc \in {"point", "upstream"} => Len(wx.weather_data) = wx.k - 1

\* C15 witness: an acquisition over three points is done; the request of the
\* first point failed and gave a synthetic sample, and the later points were
\* sampled all the same, one of them with real weather.
C15_Witness ==
    /\ wx.pc = "done"
    /\ wx.points = 3
    /\ wx.weather_data[1].kind = "synthetic"
    /\ ~wx.weather_data[1].cached
    /\ wx.weather_data[2].kind = "real"
    /\ Len(wx.weather_data) = 3

----------------------------------------------------------------------------
(* Optimizer runs, one sample or generation at a time                       *)
(* (services/optimization/aco_optimizer.py, aco.py, genetic_optimizer.py,   *)
(* genetic.py)                                                              *)

\* samples of one ant-colony run (iterations times ants in aco_optimizer.py)
OptSamples == 3

\* float('inf')
Inf == 1000000

Variants == {"ACOOptimizer", "AntColonyOptimizer", "GeneticOptimizer", "GeneticAlgorithm"}
AcoVariants == {"ACOOptimizer", "AntColonyOptimizer"}

\* what each variant writes as optimization_method
MethodName(variant) == IF variant \in AcoVariants THEN "aco" ELSE "genetic"

\* the scores the optimizer's own evaluation gives the two candidates
\* (calculate_fitness_score() without an aircraft, _evaluate_fitness)
CandidateScores == <<5, 2>>

\* a candidate: own is the optimizer's evaluation of it, fitness_score the
\* value the Route object carries
Candidate(id, own, fitness_score) ==
    [id |-> id, own |-> own, fitness_score |-> fitness_score, optimization_method |-> ""]

\* the candidate lists: no, one or both candidates, in either order; each
\* carries the optimizer's own score or a score computed otherwise (with an
\* aircraft profile, or read from a serialized route)
OrderedIds == {<<>>, <<1>>, <<2>>, <<1, 2>>, <<2, 1>>}
CandidateLists ==
    UNION {{[i \in 1..Len(ids) |->
                Candidate(ids[i], CandidateScores[ids[i]],
                          CandidateScores[ids[i]] + extra[i])] :
               extra \in [1..Len(ids) -> {0, 2}]} : ids \in OrderedIds}

\* the own scores of a candidate list, by index
OwnScores(routes) == [i \in 1..Len(routes) |-> routes[i].own]

\* Route.calculate_fitness_score() called on the routes at the indices idx:
\* it stores what it returns (route.py lines 80-84, 224)
Recomputed(routes, idx) ==
    [i \in 1..Len(routes) |->
        IF i \in idx THEN [routes[i] EXCEPT !.fitness_score = routes[i].own] ELSE routes[i]]

NoRun ==
    [pc |-> "idle", variant |-> "", input |-> <<>>, routes |-> <<>>,
     k |-> 0, best |-> 0, best_score |-> Inf, last_score |-> 0,
     population |-> <<>>, elite |-> <<>>, gen |-> 0,
     result |-> None, result_index |-> 0, samples |-> OptSamples]

\* the comparison of line 48 if it let every sample replace the best
Better_Latest(score, best_score) == TRUE

\* aco_optimizer.py line 48, aco.py line 64, genetic.py line 69
Better(score, best_score) == score < best_score

\* optimize up to its first random choice
OptBegin(variant, routes, population) ==
    /\ opt.pc = "idle"
    /\ LET run == [NoRun EXCEPT !.variant = variant, !.input = routes, !.routes = routes]
       IN opt' = IF Len(routes) = 0
                 THEN [run EXCEPT !.pc = "returned"]
                 ELSE IF variant \in AcoVariants
                 THEN [run EXCEPT !.pc = "aco"]
                 ELSE IF variant = "GeneticOptimizer" /\ Len(routes) < 2
                 THEN [run EXCEPT !.pc = "returned", !.result = routes[1],
                                  !.result_index = 1]
                 ELSE [run EXCEPT !.pc = "ga", !.population = population]
    /\ UNCHANGED <<adjusterVars, nextId, rerouteVars, bc, mon, ctl, wx, gen>>

\* one ant: a route is drawn, evaluated and compared with the best
\* (aco_optimizer.py 44-50, aco.py 55-66).  ACOOptimizer._select_route calls
\* calculate_fitness_score on every candidate.
OptSample(r) ==
    /\ opt.pc = "aco"
    /\ opt.k < opt.samples
    /\ LET routes == IF opt.variant = "ACOOptimizer"
                     THEN Recomputed(opt.routes, 1..Len(opt.routes))
                     ELSE opt.routes
           score == routes[r].own
           better == Better(score, opt.best_score)
       IN opt' = [opt EXCEPT !.routes = routes, !.k = opt.k + 1, !.last_score = score,
                             !.best = IF better THEN r ELSE opt.best,
                             !.best_score = IF better THEN score ELSE opt.best_score]
    /\ UNCHANGED <<adjusterVars, nextId, rerouteVars, bc, mon, ctl, wx, gen>>

\* the end of an ant-colony run (aco_optimizer.py 54-58, aco.py 79-84)
OptAcoReturn ==
    /\ opt.pc = "aco"
    /\ opt.k = opt.samples
    /\ LET b == opt.best
           routes == IF b = 0 THEN opt.routes
                     ELSE IF opt.variant = "ACOOptimizer"
                     THEN [opt.routes EXCEPT ![b].optimization_method = "aco"]
                     ELSE [opt.routes EXCEPT ![b].optimization_method = "aco",
                                             ![b].fitness_score = opt.best_score]
       IN opt' = [opt EXCEPT !.pc = "returned", !.routes = routes,
                             !.result = IF b = 0 THEN None ELSE routes[b],
                             !.result_index = b]
    /\ UNCHANGED <<adjusterVars, nextId, rerouteVars, bc, mon, ctl, wx, gen>>

\* the populations one generation of GeneticAlgorithm can turn pop into
\* (genetic.py 77-98): with a population of at most 5 the tournament is the
\* whole population, so every child is its best individual or, mutated, any
\* candidate
NextGenerationsGA(pop, fs) ==
    LET scored == SortByFitness(pop, fs)
        elite == SubSeq(scored, 1, Min(EliteSize, Len(scored)))
        rest == PopulationSize - Len(elite)
        kids == {scored[1]} \cup (1..Len(fs))
    IN {elite \o [i \in 1..rest |-> c[i]] : c \in [1..rest -> kids]}

\* the elite step of a generation: the first elite_size of the sorted
\* population (genetic_optimizer.py 41-44, genetic.py 66-80)
EliteOf(pop, fs) ==
    LET scored == SortByFitness(pop, fs)
    IN SubSeq(scored, 1, Min(EliteSize, Len(scored)))

\* one generation (genetic_optimizer.py 37-58, genetic.py 59-98)
OptGeneration(next) ==
    /\ opt.pc = "ga"
    /\ opt.gen < Generations
    /\ LET fs == OwnScores(opt.routes)
           pop == opt.population
           scored == SortByFitness(pop, fs)
           tracks == opt.variant = "GeneticAlgorithm"
           better == tracks /\ Better(fs[scored[1]], opt.best_score)
       IN /\ next \in (IF tracks THEN NextGenerationsGA(pop, fs)
                       ELSE NextGenerations(pop, fs))
          /\ opt' = [opt EXCEPT
                       !.routes = IF tracks THEN opt.routes
                                  ELSE Recomputed(opt.routes, {pop[i] : i \in 1..Len(pop)}),
                       !.gen = opt.gen + 1,
                       !.elite = EliteOf(pop, fs),
                       !.population = next,
                       !.best = IF better THEN scored[1] ELSE opt.best,
                       !.best_score = IF better THEN fs[scored[1]] ELSE opt.best_score]
    /\ UNCHANGED <<adjusterVars, nextId, rerouteVars, bc, mon, ctl, wx, gen>>

\* the end of a genetic run (genetic_optimizer.py 60-65, genetic.py 105-110)
OptGaReturn ==
    /\ opt.pc = "ga"
    /\ opt.gen = Generations
    /\ LET fs == OwnScores(opt.routes)
           pop == opt.population
           b == IF opt.variant = "GeneticOptimizer" THEN ArgMin(pop, fs) ELSE opt.best
           routes == IF b = 0 THEN opt.routes
                     ELSE IF opt.variant = "GeneticOptimizer"
                     THEN [Recomputed(opt.routes, {pop[i] : i \in 1..Len(pop)})
                             EXCEPT ![b].optimization_method = "genetic"]
                     ELSE [opt.routes EXCEPT ![b].optimization_method = "genetic",
                                             ![b].fitness_score = opt.best_score]
       IN opt' = [opt EXCEPT !.pc = "returned", !.routes = routes,
                             !.result = IF b = 0 THEN None ELSE routes[b],
                             !.result_index = b]
    /\ UNCHANGED <<adjusterVars, nextId, rerouteVars, bc, mon, ctl, wx, gen>>

InitOptimize ==
    /\ active_routes = <<>>
    /\ active_connections = <<>>
    /\ sent = <<>>
    /\ task = [t \in Tasks |-> IdleTask]
    /\ nextId = 0
    /\ events = 0
    /\ flight = None
    /\ rr = None
    /\ bc = None
    /\ mon = None
    /\ ctl = None
    /\ opt = NoRun
    /\ wx = None
    /\ gen = None

NextOptimize ==
    \/ \E variant \in Variants, routes \in CandidateLists :
          \E population \in (IF Len(routes) = 0 THEN {<<>>}
                               ELSE [1..PopulationSize -> 1..Len(routes)]) :
             OptBegin(variant, routes, population)
    \/ \E r \in 1..Len(opt.routes) : OptSample(r)
    \/ OptAcoReturn
    \/ \E next \in [1..PopulationSize -> 1..Len(opt.routes)] : OptGeneration(next)
    \/ OptGaReturn

SpecOptimize == InitOptimize /\ [][NextOptimize]_vars

\* the ants of one iteration (aco_optimizer.py uses 10) and the largest
\* "iterations" a request carries
Ants == 2
MaxIterations == 2

\* POST /optimize (routes_controller.py 154-187) up to the optimizer's first
\* random choice: an empty list is refused before any optimizer is made; the
\* factory makes a new optimizer for the method, "genetic" a GeneticOptimizer
\* and every other name an ACOOptimizer; the request's iterations are written
\* to an optimizer that has the attribute, which only ACOOptimizer has.
optimize_routes(method, routes, iterations, population) ==
    /\ opt.pc = "idle"
    /\ Len(routes) > 0
    /\ LET variant == IF method = "genetic" THEN "GeneticOptimizer" ELSE "ACOOptimizer"
           run == [NoRun EXCEPT !.variant = variant, !.input = routes, !.routes = routes]
       IN opt' = IF variant = "ACOOptimizer"
                 THEN [run EXCEPT !.pc = "aco", !.samples = iterations * Ants]
                 ELSE IF Len(routes) < 2
                 THEN [run EXCEPT !.pc = "returned", !.result = routes[1],
                                  !.result_index = 1]
                 ELSE [run EXCEPT !.pc = "ga", !.population = population]
    /\ UNCHANGED <<adjusterVars, nextId, rerouteVars, bc, mon, ctl, wx, gen>>

Methods == {"aco", "genetic", "ppo"}

NextSettings ==
    \/ \E method \in Methods, routes \in CandidateLists, iterations \in 0..MaxIterations :
          \E population \in (IF Len(routes) = 0 THEN {<<>>}
                               ELSE [1..PopulationSize -> 1..Len(routes)]) :
             optimize_routes(method, routes, iterations, population)
    \/ \E r \in 1..Len(opt.routes) : OptSample(r)
    \/ OptAcoReturn
    \/ \E next \in [1..PopulationSize -> 1..Len(opt.routes)] : OptGeneration(next)
    \/ OptGaReturn

SpecSettings == InitOptimize /\ [][NextSettings]_vars

----------------------------------------------------------------------------
(* Properties of the optimizers *)

\* optimize has returned a Route
Returned == opt.pc = "returned" /\ opt.result # None

\* C16: the Route optimize returns carries the name of the variant that ran
\* as its optimization_method, whatever the length of the candidate list.
C16_MethodWritten ==
    Returned => opt.result.optimization_method = MethodName(opt.variant)

\* C17: the Route optimize returns has the fitness_score it had when
\* optimize was called.
C17_FitnessScoreKept ==
    Returned => opt.result.fitness_score = opt.input[opt.result_index].fitness_score

\* C18: with the candidates of fitness 5 and 2, the elite of every
\* generation holds the candidate of fitness 2.
C18_EliteKeepsBest ==
    (opt.pc \in {"ga", "returned"} /\ opt.gen >= 1 /\ Len(opt.routes) = 2)
    => \E i \in 1..Len(opt.elite) : opt.routes[opt.elite[i]].own = 2

\* C19: during an ant-colony run the tracked best score never goes up; a
\* sample replaces the tracked best exactly when its score is strictly
\* lower, the tracked score is then the score of the tracked route, and the
\* run returns the tracked route.
C19_BestNeverRegresses ==
    [][opt.pc = "aco"
       => /\ opt'.best_score <= opt.best_score
          /\ opt'.k = opt.k + 1
             => /\ (opt'.best_score # opt.best_score \/ opt'.best # opt.best)
                   <=> opt'.last_score < opt.best_score
                /\ opt'.best # 0
                /\ opt'.best_score = opt'.routes[opt'.best].own
                /\ opt'.best_score <= opt'.last_score
          /\ opt'.pc = "returned"
             => /\ opt'.result # None
                /\ opt'.result_index = opt.best
                /\ opt'.result.id = opt.routes[opt.best].id
                /\ opt'.result.own = opt.best_score]_vars

\* C19 witness: a run has returned the candidate of score 2 after it drew
\* the candidate of score 5, then the one of score 2, then the one of score
\* 5 again.
C19_Witness ==
    /\ Returned
    /\ opt.variant \in AcoVariants
    /\ opt.k = OptSamples
    /\ opt.last_score = 5
    /\ opt.best_score = 2
    /\ opt.result.own = 2
    /\ opt.result.optimization_method = "aco"

----------------------------------------------------------------------------
(* Route generation with its file cache                                     *)
(* (backend/services/route_generator.py)                                    *)

\* calls of generate_alternative_routes and clear_cache in one behaviour
MaxCalls == 2

BOM == Airport("BOM", 4, 12)
GenOrigins == {BLR, DEL}
GenDestinations == {DEL, BOM}

\* the lists of route types the callers pass; <<>> stands for None
GenRouteTypes ==
    {<<>>, <<"direct">>, <<"left", "direct">>, <<"direct", "left">>}

\* the excluded areas the callers pass: none, one around the control point
\* of the BLR-DEL "left" curve, one that lacks "radius_km"
GenExcludedAreas ==
    {<<>>, <<ExcludedArea(9, 1, TRUE)>>, <<ExcludedArea(9, 1, FALSE)>>}

\* route_types after "if not route_types"
EffectiveTypes(route_types) ==
    IF Len(route_types) = 0 THEN RouteTypes ELSE route_types

\* '-'.join(sorted(route_types)) names the multiset of the requested types
TypeCount(types) ==
    [t \in PathTypes |-> Cardinality({k \in 1..Len(types) : types[k] = t})]

\* the "_excluded_<lat>_<lon>_<radius>" suffix of the cache key
ExcludedKey(excluded_areas) ==
    IF Len(excluded_areas) = 0
    THEN <<>>
    ELSE <<"_excluded">> \o
         [k \in 1..Len(excluded_areas) |->
            IF excluded_areas[k].radius_km
            THEN <<excluded_areas[k].latitude, excluded_areas[k].longitude>>
            ELSE <<>>]

cache_key(origin, destination, route_types, excluded_areas) ==
    [origin |-> origin.iata_code, destination |-> destination.iata_code,
     types |-> TypeCount(route_types), excluded |-> ExcludedKey(excluded_areas)]

\* Waypoint.to_dict and Waypoint.from_dict
WaypointToDict(wp) ==
    [id |-> Str(wp.id), name |-> wp.name, latitude |-> wp.latitude,
     longitude |-> wp.longitude, order |-> wp.order, status |-> wp.status]

WaypointFromDict(d) ==
    [id |-> ParseUUID(d.id), name |-> d.name, latitude |-> d.latitude,
     longitude |-> d.longitude, order |-> d.order,
     status |-> IF d.status \in {PENDING, ACTIVE, "completed", BLOCKED}
                THEN d.status ELSE PENDING]

\* Route.to_dict and Route.from_dict; the object from_dict builds is new
RouteToDict(route) ==
    [id |-> Str(route.id), origin |-> route.origin,
     destination |-> route.destination,
     waypoints |-> [i \in 1..Len(route.waypoints) |->
                      WaypointToDict(route.waypoints[i])],
     path_type |-> route.path_type,
     optimization_method |-> route.optimization_method,
     fitness_score |-> route.fitness_score,
     reroute_history |-> route.reroute_history]

RouteFromDict(d, obj) ==
    [obj |-> obj, id |-> ParseUUID(d.id), origin |-> d.origin,
     destination |-> d.destination,
     waypoints |-> [i \in 1..Len(d.waypoints) |->
                      WaypointFromDict(d.waypoints[i])],
     path_type |-> d.path_type,
     optimization_method |-> d.optimization_method,
     fitness_score |-> d.fitness_score,
     reroute_history |-> d.reroute_history]

\* the weather of the generator's calls; it decides the fitness scores only
GenWeather == [t \in PathTypes |-> IF t = "left" THEN 1 ELSE 2]

NoGenerator ==
    [calls |-> 0, cache |-> <<>>, returned |-> FALSE, hit |-> FALSE,
     origin |-> None, destination |-> None, route_types |-> <<>>,
     excluded_areas |-> <<>>, result |-> <<>>]

\* one call of generate_alternative_routes: the early return, the cache
\* read (loads: json.load and from_dict raise nothing), the generation and
\* the cache write (saved: open and json.dump raise nothing)
GenCall(origin, destination, route_types, excluded_areas, use_cache, loads, saved) ==
    /\ gen.calls < MaxCalls
    /\ LET types == EffectiveTypes(route_types)
           key == IF origin = None \/ destination = None
                  THEN None
                  ELSE cache_key(origin, destination, types, excluded_areas)
           hit == key # None /\ use_cache /\ key \in DOMAIN gen.cache /\ loads
           routes == IF hit
                     THEN [k \in 1..Len(gen.cache[key]) |->
                             RouteFromDict(gen.cache[key][k], nextId + k)]
                     ELSE generate_alternative_routes(origin, destination,
                              route_types, excluded_areas, nextId, GenWeather)
           written == key # None /\ ~hit /\ Len(routes) > 0 /\ saved
       IN /\ gen' = [gen EXCEPT
                !.calls = @ + 1, !.returned = TRUE, !.hit = hit,
                !.origin = origin, !.destination = destination,
                !.route_types = route_types,
                !.excluded_areas = excluded_areas,
                !.result = routes,
                !.cache = IF written
                          THEN [c \in DOMAIN @ \cup {key} |->
                                  IF c = key
                                  THEN [k \in 1..Len(routes) |-> RouteToDict(routes[k])]
                                  ELSE @[c]]
                          ELSE @]
          /\ nextId' = nextId + (IF hit THEN Len(routes)
                                 ELSE Len(routes) * IdsPerRoute)
    /\ UNCHANGED <<adjusterVars, rerouteVars, bc, mon, ctl, opt, wx>>

\* clear_cache(origin_code, destination_code); "" stands for None
GenClearCache(origin_code, destination_code) ==
    /\ gen.calls < MaxCalls
    /\ gen.cache # <<>>
    /\ gen' = [gen EXCEPT
          !.calls = @ + 1,
          !.cache = [c \in {x \in DOMAIN @ :
                              \/ /\ origin_code # "" /\ destination_code # ""
                                 /\ ~(x.origin = origin_code
                                      /\ x.destination = destination_code)
                              \/ /\ origin_code # "" /\ destination_code = ""
                                 /\ x.origin # origin_code
                              \/ /\ origin_code = "" /\ destination_code # ""
                                 /\ x.destination # destination_code} |-> @[c]]]
    /\ UNCHANGED <<adjusterVars, nextId, rerouteVars, bc, mon, ctl, opt, wx>>

InitGenerate ==
    /\ active_routes = <<>>
    /\ active_connections = <<>>
    /\ sent = <<>>
    /\ task = [t \in Tasks |-> IdleTask]
    /\ nextId = 0
    /\ events = 0
    /\ flight = None
    /\ rr = None
    /\ bc = None
    /\ mon = None
    /\ ctl = None
    /\ opt = None
    /\ wx = None
    /\ gen = NoGenerator

NextGenerate ==
    \/ \E origin \in GenOrigins \cup {None}, destination \in GenDestinations \cup {None},
          route_types \in GenRouteTypes, excluded_areas \in GenExcludedAreas,
          use_cache \in BOOLEAN, loads \in BOOLEAN, saved \in BOOLEAN :
         GenCall(origin, destination, route_types, excluded_areas, use_cache, loads, saved)
    \/ \E origin_code \in {"", "BLR"}, destination_code \in {"", "DEL"} :
         GenClearCache(origin_code, destination_code)

SpecGenerate == InitGenerate /\ [][NextGenerate]_vars

\* the routes of path type t in a list
OfType(routes, t) == {k \in 1..Len(routes) : routes[k].path_type = t}

\* C20: when generate_alternative_routes is given both airports, it returns
\* as many routes of each path type as the (defaulted) list of requested
\* types names that type, and every returned route has exactly NumWaypoints
\* waypoints, numbered 1..NumWaypoints in list order, the first at exactly
\* the origin's coordinates and the last at exactly the destination's, for
\* every path type, with and without excluded areas, served from the cache
\* or generated.
C20_OnePerTypeWithPinnedEnds ==
    (gen.returned /\ gen.origin # None /\ gen.destination # None)
    => LET types == EffectiveTypes(gen.route_types)
       IN /\ Len(gen.result) = Len(types)
          /\ \A t \in PathTypes :
               Cardinality(OfType(gen.result, t)) = TypeCount(types)[t]
          /\ \A k \in 1..Len(gen.result) :
               LET w == gen.result[k].waypoints
               IN /\ Len(w) = NumWaypoints
                  /\ \A i \in 1..Len(w) : w[i].order = i
                  /\ w[1].latitude = gen.origin.latitude
                  /\ w[1].longitude = gen.origin.longitude
                  /\ w[Len(w)].latitude = gen.destination.latitude
                  /\ w[Len(w)].longitude = gen.destination.longitude

\* C20 witness: a call for all six path types with an excluded area that
\* covers the control point of a curve has returned six routes, the "left"
\* one of which bends further than it does without the area.
C20_Witness ==
    /\ gen.returned
    /\ ~gen.hit
    /\ gen.origin = BLR
    /\ gen.destination = DEL
    /\ gen.route_types = <<>>
    /\ gen.excluded_areas = <<ExcludedArea(9, 1, TRUE)>>
    /\ Len(gen.result) = 6
    /\ \E k \in 1..6 :
         /\ gen.result[k].path_type = "left"
         /\ gen.result[k].waypoints[2].latitude
              # _calculate_waypoints(BLR, DEL, "left", <<>>, 0)[2].latitude

\* C21: when no path type is requested, generate_alternative_routes
\* returns an empty list.
C21_NoTypesNoRoutes ==
    (gen.returned /\ gen.origin # None /\ gen.destination # None
     /\ Len(gen.route_types) = 0)
    => Len(gen.result) = 0

----------------------------------------------------------------------------
(* Properties of the splice and of the reroute history *)

\* the index of the blocked waypoint in the route a call replaced, 0 if none
BlockedIndexIn(route, blocked) ==
    LastIndexOfId(route.waypoints, blocked.id, Len(route.waypoints))

\* C22: when a reroute succeeds with the current position before the blocked
\* waypoint, the new route is the kept prefix of p waypoints followed by the
\* chosen alternative's waypoints from its matched entry index on, cut to
\* N - p of them (N the length of the replaced route) and all of them when
\* there are fewer; and no successful reroute, whatever its branch and
\* however many came before, returns more waypoints than the route it
\* replaces.
C22_SuffixFitsTheGap ==
    [][(rr'.calls = rr.calls + 1 /\ rr'.result # None)
       => LET N == Len(flight.waypoints)
              p == rr'.k
              new == flight'.waypoints
              tail == Len(rr'.alt) - rr'.target + 1
              m == Min(tail, N - p)
          IN /\ Len(new) <= N
             /\ (BlockedIndexIn(flight, rr'.blocked) # 0
                 /\ p < BlockedIndexIn(flight, rr'.blocked))
                => /\ Len(new) = p + m
                   /\ \A i \in 1..p :
                        /\ new[i].id = flight.waypoints[i].id
                        /\ new[i].latitude = flight.waypoints[i].latitude
                        /\ new[i].longitude = flight.waypoints[i].longitude
                   /\ \A i \in 1..m :
                        /\ new[p + i].latitude = rr'.alt[rr'.target + i - 1].latitude
                        /\ new[p + i].longitude = rr'.alt[rr'.target + i - 1].longitude
                        /\ new[p + i].status = rr'.alt[rr'.target + i - 1].status]_vars

\* C22 witness: a second successive reroute has spliced, before the blocked
\* waypoint, an alternative whose tail from the matched entry is shorter than
\* the gap, so the new route is shorter than the one it replaced.
C22_Witness ==
    /\ rr.calls = 2
    /\ rr.result # None
    /\ BlockedIndexIn(rr.prev, rr.blocked) # 0
    /\ rr.k < BlockedIndexIn(rr.prev, rr.blocked)
    /\ Len(rr.alt) - rr.target + 1 < Len(rr.prev.waypoints) - rr.k
    /\ Len(flight.waypoints) < Len(rr.prev.waypoints)

----------------------------------------------------------------------------
(* Properties of the waypoint statuses of registered routes *)

\* the keys under which the same route object is registered before and
\* after a step
StaysRegistered ==
    {k \in DOMAIN active_routes \cap DOMAIN active_routes' :
        active_routes[k].obj = active_routes'[k].obj}

\* C23: a waypoint of a registered route that is blocked is still blocked
\* after every step that leaves the same route object registered.
C23_BlockedStaysBlocked ==
    [][\A k \in StaysRegistered :
         \A i \in 1..Len(active_routes[k].waypoints) :
            active_routes[k].waypoints[i].status = BLOCKED
            => /\ i <= Len(active_routes'[k].waypoints)
               /\ active_routes'[k].waypoints[i].status = BLOCKED]_vars

\* the waypoints of a route whose status is active
ActiveIndices(route) ==
    {i \in 1..Len(route.waypoints) : route.waypoints[i].status = ACTIVE}

\* C24: every registered route has at most one waypoint whose status is
\* active.
C24_AtMostOneActive ==
    \A k \in DOMAIN active_routes :
       Cardinality(ActiveIndices(active_routes[k])) <= 1

----------------------------------------------------------------------------
(* Properties of a broadcast among connects and disconnects *)

\* how many sends of the broadcast went to ws, returned or raised
Attempts25(b, ws) ==
    Cardinality({i \in 1..Len(b.succeeded) : b.succeeded[i] = ws})
    + Cardinality({i \in 1..Len(b.disconnected_sockets) : b.disconnected_sockets[i] = ws})

\* C25: when a broadcast has returned, every websocket that was subscribed
\* when it began and whose endpoint has not disconnected since (a websocket
\* connects once, so it was subscribed all along) was sent the message
\* exactly once.
C25_NobodySkipped ==
    bc.pc = "returned"
    => \A ws \in SeqRange(bc.start) :
          task[ws].pc = "receive" => Attempts25(bc, ws) = 1

----------------------------------------------------------------------------
(* Properties of the monitor's notifications *)

\* the Route objects alive: registered, or kept by the scan's snapshot
Objects(routes, m) == {routes[k].obj : k \in DOMAIN routes} \cup DOMAIN m.detached

ObjectNow(routes, m, obj) ==
    IF Registered(routes, obj) # {}
    THEN routes[CHOOSE k \in Registered(routes, obj) : TRUE]
    ELSE m.detached[obj]

\* the waypoints whose status a step changes
StatusChanges ==
    {c \in (Objects(active_routes, mon) \cap Objects(active_routes', mon'))
           \X (1..(NumWaypoints + 1)) :
        /\ c[2] <= Len(ObjectNow(active_routes, mon, c[1]).waypoints)
        /\ c[2] <= Len(ObjectNow(active_routes', mon', c[1]).waypoints)
        /\ ObjectNow(active_routes, mon, c[1]).waypoints[c[2]].status
           # ObjectNow(active_routes', mon', c[1]).waypoints[c[2]].status}

\* C26: in every step of the monitoring task, broadcast_waypoint_status is
\* called once for each waypoint whose status the step changes and not
\* otherwise, with that waypoint's id and new status; a step that cancels
\* the task changes no status and calls nothing, so a change whose broadcast
\* the cancellation interrupts was published once and is not published
\* again.
C26_OneCallPerChange ==
    [][MonitorStep
       => /\ bc'.count - bc.count = Cardinality(StatusChanges)
          /\ bc'.count > bc.count /\ bc'.pc = "sending"
             => \E c \in StatusChanges :
                  LET wp == ObjectNow(active_routes', mon', c[1]).waypoints[c[2]]
                  IN /\ bc'.type = "waypoint_status"
                     /\ bc'.data = [waypoint_id |-> Str(wp.id), status |-> wp.status]
          /\ (bc.pc = "sending" /\ bc'.pc = "cancelled")
             => /\ bc'.count = bc.count
                /\ bc'.data = bc.data
                /\ mon'.loop = "ended"]_vars

\* C26 witness: stop_monitoring has cancelled the task while the broadcast
\* of a status change awaited its send_json: the waypoint has the published
\* status and the broadcast never completed.
C26_Witness ==
    /\ bc.pc = "cancelled"
    /\ bc.type = "waypoint_status"
    /\ mon.loop = "ended"
    /\ \E k \in DOMAIN active_routes :
         \E i \in 1..Len(active_routes[k].waypoints) :
            /\ Str(active_routes[k].waypoints[i].id) = bc.data.waypoint_id
            /\ active_routes[k].waypoints[i].status = bc.data.status
            /\ bc.data.status = PASSED

----------------------------------------------------------------------------
(* Properties of start_monitoring *)

\* C27: when start_monitoring returns, one monitoring loop is running: the
\* call creates a task only when no loop is running, and after it
\* monitoring_task is a task whose loop has not finished, also when the
\* previous loop ended by an unexpected exception.
C27_OneLoopAfterStart ==
    [][ctl'.starts > ctl.starts
       => /\ mon'.monitoring_task # mon.monitoring_task => ~Running(mon.loop)
          /\ mon'.monitoring_task # 0
          /\ Running(mon'.loop)]_vars

\* ---------------------------------------------------------------------------
\* C28: in every reachable state of the adjuster, whatever register_route
\* calls and block events came before, every key k of the registry maps to
\* a route whose id, written as a string, is k.
C28_KeyIsRouteId ==
    \A k \in Keys : Str(active_routes[k].id) = k

\* C28 witness: a block event has replaced the route registered under k by
\* a route object that was generated under another id, and the key still
\* names the id of the stored route.
C28_Witness ==
    \E k \in Keys :
        /\ \E t \in Tasks : /\ task[t].pc = "returned"
                            /\ task[t].result # None
                            /\ task[t].route_id = k
        /\ active_routes[k].obj # ParseUUID(k)
        /\ Str(active_routes[k].id) = k

\* ---------------------------------------------------------------------------
\* the path types recorded in a route's reroute_history
HistoryTypes(route) ==
    {route.reroute_history[i][2] : i \in 1..Len(route.reroute_history)}

\* C29: after any sequence of reroutes of one flight the path types in its
\* reroute_history are pairwise distinct and each was offered by the call
\* that recorded it; every successful reroute adds exactly one entry, so
\* the flight has at most as many successful reroutes as there are distinct
\* offered path types; and a reroute whose offered path types are all in
\* the history already fails and leaves the flight as it was.
C29_EachTypeOnce ==
    [][rr'.calls > rr.calls
       => /\ Cardinality(HistoryTypes(flight')) = Len(flight'.reroute_history)
          /\ HistoryTypes(flight') \subseteq HistoryTypes(flight) \cup rr'.offered
          /\ Len(flight'.reroute_history) <= rr'.calls
          /\ rr'.result # None
             => Len(flight'.reroute_history) = Len(flight.reroute_history) + 1
          /\ (Len(flight.reroute_history) > 0
              /\ rr'.offered \subseteq HistoryTypes(flight))
             => /\ rr'.result = None
                /\ flight' = flight]_vars

\* C29 witness: the flight was rerouted once, its history holds every path
\* type the second call offered, and the second call failed.
C29_Witness ==
    /\ rr.calls = 2
    /\ Len(flight.reroute_history) = 1
    /\ rr.offered # {}
    /\ rr.offered \subseteq HistoryTypes(flight)
    /\ rr.result = None
    /\ rr.blocked # None
    /\ \E i \in 2..Len(flight.waypoints) : flight.waypoints[i].id = rr.blocked.id
    /\ rr.prev = flight

\* ---------------------------------------------------------------------------
\* C30: whenever optimize has returned for a non-empty candidate list,
\* whatever the request's method and iterations, it has returned one of the
\* candidate objects it was given: not None, and not a route of another id.
C30_ReturnsAnInputCandidate ==
    (opt.pc = "returned" /\ Len(opt.input) > 0)
    => /\ opt.result # None
       /\ opt.result_index \in 1..Len(opt.input)
       /\ opt.result.id = opt.input[opt.result_index].id

====
